---- MODULE Spec2Model ----
(***************************************************************************)
(* A model of python-lx200: the frame parser (lx200/parser.py), the        *)
(* command catalog and decoder (lx200/commands.py), the path-addressed     *)
(* store (lx200/store.py) and the response catalog (lx200/responses).      *)
(*                                                                         *)
(* Text is modelled as a sequence of one-character strings; the two        *)
(* control bytes \x06 and \x04 are the tokens ACK_BYTE and EOT_BYTE.       *)
(* A Python value is a record [t |-> type name, v |-> payload].            *)
(***************************************************************************)
EXTENDS Integers, Sequences, FiniteSets, TLC

(* ------------------------------ bounds --------------------------------- *)

\* Parser(maxlen=MaxLen) in the byte-level specification Spec
MaxLen == 1
\* commands left undrained in Parser.output before the caller pops
MaxQueue == 2
\* commands decoded in one run of Spec
MaxEmit == 3
\* cap standing for the unbounded repeat of the + quantifier
MAXREPEAT == 40

(* ------------------------------ values --------------------------------- *)

None == [t |-> "None", v |-> 0]

PyInt(n) == [t |-> "int", v |-> n]

PyBool(b) == [t |-> "bool", v |-> b]

PyStr(s) == [t |-> "str", v |-> s]

RECURSIVE NormFloat(_, _)
\* a float is mantissa / 10^decimals with the fewest decimals
NormFloat(m, e) == IF e > 0 /\ m % 10 = 0 THEN NormFloat(m \div 10, e - 1) ELSE <<m, e>>

PyFloat(m, e) == [t |-> "float", v |-> NormFloat(m, e)]

EmptyMap == [k \in {} |-> None]

NoPath == <<>>

(* ---------------------------- characters ------------------------------- *)

ACK_BYTE == "\\x06"

EOT_BYTE == "\\x04"

COMMAND_START == ":"

COMMAND_END == "#"

Digit == {"0", "1", "2", "3", "4", "5", "6", "7", "8", "9"}

\* \w of the re module, on ASCII text
Word ==
    {"a", "b", "c", "d", "e", "f", "g", "h", "i", "j", "k", "l", "m",
     "n", "o", "p", "q", "r", "s", "t", "u", "v", "w", "x", "y", "z",
     "A", "B", "C", "D", "E", "F", "G", "H", "I", "J", "K", "L", "M",
     "N", "O", "P", "Q", "R", "S", "T", "U", "V", "W", "X", "Y", "Z"}
    \cup Digit \cup {"_"}

\* \s of the re module, on ASCII text
Space == {" ", "\t", "\n", "\r", "\f"}

DigitVal(c) == CASE c = "0" -> 0 [] c = "1" -> 1 [] c = "2" -> 2 [] c = "3" -> 3
                 [] c = "4" -> 4 [] c = "5" -> 5 [] c = "6" -> 6 [] c = "7" -> 7
                 [] c = "8" -> 8 [] c = "9" -> 9

DigitChar(d) == CASE d = 0 -> "0" [] d = 1 -> "1" [] d = 2 -> "2" [] d = 3 -> "3"
                  [] d = 4 -> "4" [] d = 5 -> "5" [] d = 6 -> "6" [] d = 7 -> "7"
                  [] d = 8 -> "8" [] d = 9 -> "9"

(* ------------------------- pattern elements ---------------------------- *)

\* the repeat counts hi, hi-1, ..., lo a greedy quantifier {lo,hi} tries, in order
Down(hi, lo) == [i \in 1..(hi - lo + 1) |-> hi - i + 1]

\* one element of a compiled pattern: a character class, the repeat counts it
\* tries in order, the group it belongs to ("" for none) and whether that
\* group is optional (a (...)? group, which is None when skipped)
Item(cls, counts, grp, opt) == [cls |-> cls, counts |-> counts, grp |-> grp, opt |-> opt]

Lit(c) == Item({c}, <<1>>, "", FALSE)

(* --------------------------- the catalogs ------------------------------ *)

ALL_COMMANDS == <<
    [name |-> "ACK",
     kind |-> "literal", lit |-> <<ACK_BYTE>>,
     alts |-> <<>>, named |-> <<>>,
     parse |-> "SimpleCommand", mro |-> <<"ACK", "SimpleCommand", "BaseCommand">>, default_type |-> "int", type_map |-> EmptyMap,
     store_path |-> NoPath, load_path |-> <<[lit |-> "mount.alignment_mode", fld |-> ""]>>, has_store_value |-> FALSE, store_value |-> EmptyMap,
     fields |-> <<[name |-> "value", repr |-> FALSE, default |-> None]>>],
    [name |-> "EOT",
     kind |-> "literal", lit |-> <<EOT_BYTE>>,
     alts |-> <<>>, named |-> <<>>,
     parse |-> "SimpleCommand", mro |-> <<"EOT", "SimpleCommand", "BaseCommand">>, default_type |-> "int", type_map |-> EmptyMap,
     store_path |-> NoPath, load_path |-> NoPath, has_store_value |-> FALSE, store_value |-> EmptyMap,
     fields |-> <<[name |-> "value", repr |-> FALSE, default |-> None]>>],
    [name |-> "AutomaticAlignment",
     kind |-> "literal", lit |-> <<"A", "a">>,
     alts |-> <<>>, named |-> <<>>,
     parse |-> "SimpleCommand", mro |-> <<"AutomaticAlignment", "SimpleCommand", "BaseCommand">>, default_type |-> "int", type_map |-> EmptyMap,
     store_path |-> NoPath, load_path |-> NoPath, has_store_value |-> FALSE, store_value |-> EmptyMap,
     fields |-> <<[name |-> "value", repr |-> FALSE, default |-> None]>>],
    [name |-> "LandAlignment",
     kind |-> "literal", lit |-> <<"A", "L">>,
     alts |-> <<>>, named |-> <<>>,
     parse |-> "SimpleCommand", mro |-> <<"LandAlignment", "SimpleCommand", "BaseCommand">>, default_type |-> "int", type_map |-> EmptyMap,
     store_path |-> <<[lit |-> "mount.alignment_mode", fld |-> ""]>>, load_path |-> NoPath, has_store_value |-> TRUE, store_value |-> ("value" :> PyStr("L")),
     fields |-> <<[name |-> "value", repr |-> FALSE, default |-> None]>>],
    [name |-> "PolarAlignment",
     kind |-> "literal", lit |-> <<"A", "P">>,
     alts |-> <<>>, named |-> <<>>,
     parse |-> "SimpleCommand", mro |-> <<"PolarAlignment", "SimpleCommand", "BaseCommand">>, default_type |-> "int", type_map |-> EmptyMap,
     store_path |-> <<[lit |-> "mount.alignment_mode", fld |-> ""]>>, load_path |-> NoPath, has_store_value |-> TRUE, store_value |-> ("value" :> PyStr("P")),
     fields |-> <<[name |-> "value", repr |-> FALSE, default |-> None]>>],
    [name |-> "AltAzAlignment",
     kind |-> "literal", lit |-> <<"A", "A">>,
     alts |-> <<>>, named |-> <<>>,
     parse |-> "SimpleCommand", mro |-> <<"AltAzAlignment", "SimpleCommand", "BaseCommand">>, default_type |-> "int", type_map |-> EmptyMap,
     store_path |-> <<[lit |-> "mount.alignment_mode", fld |-> ""]>>, load_path |-> NoPath, has_store_value |-> TRUE, store_value |-> ("value" :> PyStr("A")),
     fields |-> <<[name |-> "value", repr |-> FALSE, default |-> None]>>],
    [name |-> "SetAltitudeAntiBacklash",
     kind |-> "regex", lit |-> <<>>,
     alts |-> <<<<Lit("$"), Lit("B"), Lit("A"), Item({" "}, Down(1, 0), "", FALSE), Item(Digit, Down(2, 1), "1", FALSE)>>>>, named |-> <<>>,
     parse |-> "SimpleNumericCommand", mro |-> <<"SetAltitudeAntiBacklash", "SimpleNumericCommand", "SimpleCommand", "BaseCommand">>, default_type |-> "int", type_map |-> EmptyMap,
     store_path |-> <<[lit |-> "mount.backlash.altitude", fld |-> ""]>>, load_path |-> NoPath, has_store_value |-> FALSE, store_value |-> EmptyMap,
     fields |-> <<[name |-> "value", repr |-> TRUE, default |-> PyInt(0)]>>],
    [name |-> "SetDeclinationAntiBacklash",
     kind |-> "regex", lit |-> <<>>,
     alts |-> <<<<Lit("$"), Lit("B"), Lit("A"), Item({" "}, Down(1, 0), "", FALSE), Item(Digit, Down(2, 1), "1", FALSE)>>>>, named |-> <<>>,
     parse |-> "SimpleNumericCommand", mro |-> <<"SetDeclinationAntiBacklash", "SetAltitudeAntiBacklash", "SimpleNumericCommand", "SimpleCommand", "BaseCommand">>, default_type |-> "int", type_map |-> EmptyMap,
     store_path |-> <<[lit |-> "mount.backlash.altitude", fld |-> ""]>>, load_path |-> NoPath, has_store_value |-> FALSE, store_value |-> EmptyMap,
     fields |-> <<[name |-> "value", repr |-> TRUE, default |-> PyInt(0)]>>],
    [name |-> "SetAzimuthAntiBacklash",
     kind |-> "regex", lit |-> <<>>,
     alts |-> <<<<Lit("$"), Lit("B"), Lit("Z"), Item({" "}, Down(1, 0), "", FALSE), Item(Digit, Down(2, 1), "1", FALSE)>>>>, named |-> <<>>,
     parse |-> "SimpleNumericCommand", mro |-> <<"SetAzimuthAntiBacklash", "SimpleNumericCommand", "SimpleCommand", "BaseCommand">>, default_type |-> "int", type_map |-> EmptyMap,
     store_path |-> <<[lit |-> "mount.backlash.azimuth", fld |-> ""]>>, load_path |-> NoPath, has_store_value |-> FALSE, store_value |-> EmptyMap,
     fields |-> <<[name |-> "value", repr |-> TRUE, default |-> PyInt(0)]>>],
    [name |-> "SetRightAscentionAntiBacklash",
     kind |-> "regex", lit |-> <<>>,
     alts |-> <<<<Lit("$"), Lit("B"), Lit("Z"), Item({" "}, Down(1, 0), "", FALSE), Item(Digit, Down(2, 1), "1", FALSE)>>>>, named |-> <<>>,
     parse |-> "SimpleNumericCommand", mro |-> <<"SetRightAscentionAntiBacklash", "SetAzimuthAntiBacklash", "SimpleNumericCommand", "SimpleCommand", "BaseCommand">>, default_type |-> "int", type_map |-> EmptyMap,
     store_path |-> <<[lit |-> "mount.backlash.azimuth", fld |-> ""]>>, load_path |-> NoPath, has_store_value |-> FALSE, store_value |-> EmptyMap,
     fields |-> <<[name |-> "value", repr |-> TRUE, default |-> PyInt(0)]>>],
    [name |-> "IncreaseReticleBrightness",
     kind |-> "literal", lit |-> <<"B", "+">>,
     alts |-> <<>>, named |-> <<>>,
     parse |-> "SimpleCommand", mro |-> <<"IncreaseReticleBrightness", "SimpleCommand", "BaseCommand">>, default_type |-> "int", type_map |-> EmptyMap,
     store_path |-> NoPath, load_path |-> NoPath, has_store_value |-> FALSE, store_value |-> EmptyMap,
     fields |-> <<[name |-> "value", repr |-> FALSE, default |-> None]>>],
    [name |-> "DecreaseReticleBrightness",
     kind |-> "literal", lit |-> <<"B", "-">>,
     alts |-> <<>>, named |-> <<>>,
     parse |-> "SimpleCommand", mro |-> <<"DecreaseReticleBrightness", "SimpleCommand", "BaseCommand">>, default_type |-> "int", type_map |-> EmptyMap,
     store_path |-> NoPath, load_path |-> NoPath, has_store_value |-> FALSE, store_value |-> EmptyMap,
     fields |-> <<[name |-> "value", repr |-> FALSE, default |-> None]>>],
    [name |-> "SetReticleFlashRate",
     kind |-> "regex", lit |-> <<>>,
     alts |-> <<<<Lit("$"), Lit("B"), Item({" "}, Down(1, 0), "", FALSE), Item(Digit, <<1>>, "1", FALSE)>>>>, named |-> <<>>,
     parse |-> "SimpleNumericCommand", mro |-> <<"SetReticleFlashRate", "SimpleNumericCommand", "SimpleCommand", "BaseCommand">>, default_type |-> "int", type_map |-> EmptyMap,
     store_path |-> <<[lit |-> "reticle.flash.rate", fld |-> ""]>>, load_path |-> NoPath, has_store_value |-> FALSE, store_value |-> EmptyMap,
     fields |-> <<[name |-> "value", repr |-> TRUE, default |-> PyInt(0)]>>],
    [name |-> "SetReticleFlashDutyCycle",
     kind |-> "regex", lit |-> <<>>,
     alts |-> <<<<Lit("$"), Lit("B"), Lit("D"), Item({" "}, Down(1, 0), "", FALSE), Item(Digit, Down(2, 1), "1", FALSE)>>>>, named |-> <<>>,
     parse |-> "SimpleNumericCommand", mro |-> <<"SetReticleFlashDutyCycle", "SimpleNumericCommand", "SimpleCommand", "BaseCommand">>, default_type |-> "int", type_map |-> EmptyMap,
     store_path |-> <<[lit |-> "reticle.flash.duty_cycle", fld |-> ""]>>, load_path |-> NoPath, has_store_value |-> FALSE, store_value |-> EmptyMap,
     fields |-> <<[name |-> "value", repr |-> TRUE, default |-> PyInt(0)]>>],
    [name |-> "SyncSelenographic",
     kind |-> "literal", lit |-> <<"C", "L">>,
     alts |-> <<>>, named |-> <<>>,
     parse |-> "SimpleCommand", mro |-> <<"SyncSelenographic", "SimpleCommand", "BaseCommand">>, default_type |-> "int", type_map |-> EmptyMap,
     store_path |-> NoPath, load_path |-> NoPath, has_store_value |-> FALSE, store_value |-> EmptyMap,
     fields |-> <<[name |-> "value", repr |-> FALSE, default |-> None]>>],
    [name |-> "SyncDatabase",
     kind |-> "literal", lit |-> <<"C", "M">>,
     alts |-> <<>>, named |-> <<>>,
     parse |-> "SimpleCommand", mro |-> <<"SyncDatabase", "SimpleCommand", "BaseCommand">>, default_type |-> "int", type_map |-> EmptyMap,
     store_path |-> NoPath, load_path |-> NoPath, has_store_value |-> FALSE, store_value |-> EmptyMap,
     fields |-> <<[name |-> "value", repr |-> FALSE, default |-> None]>>],
    [name |-> "DistanceBars",
     kind |-> "literal", lit |-> <<"D">>,
     alts |-> <<>>, named |-> <<>>,
     parse |-> "SimpleCommand", mro |-> <<"DistanceBars", "SimpleCommand", "BaseCommand">>, default_type |-> "int", type_map |-> EmptyMap,
     store_path |-> NoPath, load_path |-> <<[lit |-> "mount.target.distance", fld |-> ""]>>, has_store_value |-> FALSE, store_value |-> EmptyMap,
     fields |-> <<[name |-> "value", repr |-> FALSE, default |-> None]>>],
    [name |-> "MoveFocuserInward",
     kind |-> "literal", lit |-> <<"F", "+">>,
     alts |-> <<>>, named |-> <<>>,
     parse |-> "SimpleCommand", mro |-> <<"MoveFocuserInward", "SimpleCommand", "BaseCommand">>, default_type |-> "int", type_map |-> EmptyMap,
     store_path |-> NoPath, load_path |-> NoPath, has_store_value |-> FALSE, store_value |-> EmptyMap,
     fields |-> <<[name |-> "value", repr |-> FALSE, default |-> None]>>],
    [name |-> "MoveFocuserOutward",
     kind |-> "literal", lit |-> <<"F", "-">>,
     alts |-> <<>>, named |-> <<>>,
     parse |-> "SimpleCommand", mro |-> <<"MoveFocuserOutward", "SimpleCommand", "BaseCommand">>, default_type |-> "int", type_map |-> EmptyMap,
     store_path |-> NoPath, load_path |-> NoPath, has_store_value |-> FALSE, store_value |-> EmptyMap,
     fields |-> <<[name |-> "value", repr |-> FALSE, default |-> None]>>],
    [name |-> "PulseFocuser",
     kind |-> "regex", lit |-> <<>>,
     alts |-> <<<<Lit("F"), Lit("P"), Item({" "}, Down(1, 0), "", FALSE), Item({"-", "+", " "}, Down(1, 0), "1", FALSE), Item(Digit, Down(5, 1), "1", FALSE)>>>>, named |-> <<>>,
     parse |-> "SimpleNumericCommand", mro |-> <<"PulseFocuser", "SimpleNumericCommand", "SimpleCommand", "BaseCommand">>, default_type |-> "int", type_map |-> EmptyMap,
     store_path |-> NoPath, load_path |-> NoPath, has_store_value |-> FALSE, store_value |-> EmptyMap,
     fields |-> <<[name |-> "value", repr |-> TRUE, default |-> PyInt(0)]>>],
    [name |-> "TiltCorrectorPlate",
     kind |-> "regex", lit |-> <<>>,
     alts |-> <<<<Lit("F"), Lit("C"), Item({" "}, Down(1, 0), "", FALSE), Item({"n", "s", "e", "w"}, <<1>>, "1", FALSE)>>>>, named |-> <<>>,
     parse |-> "SimpleCommand", mro |-> <<"TiltCorrectorPlate", "SimpleCommand", "BaseCommand">>, default_type |-> "str", type_map |-> EmptyMap,
     store_path |-> NoPath, load_path |-> NoPath, has_store_value |-> FALSE, store_value |-> EmptyMap,
     fields |-> <<[name |-> "value", repr |-> FALSE, default |-> None]>>],
    [name |-> "HaltFocuserMotion",
     kind |-> "literal", lit |-> <<"F", "Q">>,
     alts |-> <<>>, named |-> <<>>,
     parse |-> "SimpleCommand", mro |-> <<"HaltFocuserMotion", "SimpleCommand", "BaseCommand">>, default_type |-> "int", type_map |-> EmptyMap,
     store_path |-> NoPath, load_path |-> NoPath, has_store_value |-> FALSE, store_value |-> EmptyMap,
     fields |-> <<[name |-> "value", repr |-> FALSE, default |-> None]>>],
    [name |-> "SetFocuserPreset",
     kind |-> "regex", lit |-> <<>>,
     alts |-> <<<<Lit("F"), Lit("L"), Lit("D"), Item({" "}, Down(1, 0), "", FALSE), Item({"1", "2", "3", "4", "5", "6", "7", "8", "9"}, <<1>>, "1", FALSE)>>>>, named |-> <<>>,
     parse |-> "SimpleNumericCommand", mro |-> <<"SetFocuserPreset", "SimpleNumericCommand", "SimpleCommand", "BaseCommand">>, default_type |-> "int", type_map |-> EmptyMap,
     store_path |-> NoPath, load_path |-> NoPath, has_store_value |-> FALSE, store_value |-> EmptyMap,
     fields |-> <<[name |-> "value", repr |-> TRUE, default |-> PyInt(0)]>>],
    [name |-> "SetFocuserPresetName",
     kind |-> "regex", lit |-> <<>>,
     alts |-> <<<<Lit("F"), Lit("L"), Lit("N"), Item({" "}, Down(1, 0), "", FALSE), Item({"1", "2", "3", "4", "5", "6", "7", "8", "9"}, <<1>>, "idx", FALSE), Item(Word \cup Space, Down(MAXREPEAT, 1), "value", FALSE)>>>>, named |-> <<"idx", "value">>,
     parse |-> "SimpleNumericCommand", mro |-> <<"SetFocuserPresetName", "SimpleNumericCommand", "SimpleCommand", "BaseCommand">>, default_type |-> "str", type_map |-> EmptyMap,
     store_path |-> <<[lit |-> "focuser.presets.name_", fld |-> "idx"]>>, load_path |-> NoPath, has_store_value |-> FALSE, store_value |-> EmptyMap,
     fields |-> <<[name |-> "value", repr |-> TRUE, default |-> PyInt(0)], [name |-> "idx", repr |-> TRUE, default |-> PyInt(1)]>>],
    [name |-> "SyncFocuserToPreset",
     kind |-> "regex", lit |-> <<>>,
     alts |-> <<<<Lit("F"), Lit("L"), Lit("S"), Item({" "}, Down(1, 0), "", FALSE), Item({"1", "2", "3", "4", "5", "6", "7", "8", "9"}, <<1>>, "1", FALSE)>>>>, named |-> <<>>,
     parse |-> "SimpleNumericCommand", mro |-> <<"SyncFocuserToPreset", "SimpleNumericCommand", "SimpleCommand", "BaseCommand">>, default_type |-> "int", type_map |-> EmptyMap,
     store_path |-> NoPath, load_path |-> NoPath, has_store_value |-> FALSE, store_value |-> EmptyMap,
     fields |-> <<[name |-> "value", repr |-> TRUE, default |-> PyInt(0)]>>],
    [name |-> "SetFocuserSpeedFastest",
     kind |-> "literal", lit |-> <<"F", "F">>,
     alts |-> <<>>, named |-> <<>>,
     parse |-> "SimpleCommand", mro |-> <<"SetFocuserSpeedFastest", "SimpleCommand", "BaseCommand">>, default_type |-> "int", type_map |-> EmptyMap,
     store_path |-> <<[lit |-> "focuser.speed", fld |-> ""]>>, load_path |-> NoPath, has_store_value |-> TRUE, store_value |-> ("value" :> PyInt(4)),
     fields |-> <<[name |-> "value", repr |-> FALSE, default |-> None]>>],
    [name |-> "SetFocuserSpeedSlowest",
     kind |-> "literal", lit |-> <<"F", "S">>,
     alts |-> <<>>, named |-> <<>>,
     parse |-> "SimpleCommand", mro |-> <<"SetFocuserSpeedSlowest", "SimpleCommand", "BaseCommand">>, default_type |-> "int", type_map |-> EmptyMap,
     store_path |-> <<[lit |-> "focuser.speed", fld |-> ""]>>, load_path |-> NoPath, has_store_value |-> TRUE, store_value |-> ("value" :> PyInt(1)),
     fields |-> <<[name |-> "value", repr |-> FALSE, default |-> None]>>],
    [name |-> "SetFocuserSpeed",
     kind |-> "regex", lit |-> <<>>,
     alts |-> <<<<Lit("F"), Item({" "}, Down(1, 0), "", FALSE), Item({"1", "2", "3", "4"}, <<1>>, "1", FALSE)>>>>, named |-> <<>>,
     parse |-> "SimpleNumericCommand", mro |-> <<"SetFocuserSpeed", "SimpleNumericCommand", "SimpleCommand", "BaseCommand">>, default_type |-> "int", type_map |-> EmptyMap,
     store_path |-> <<[lit |-> "focuser.speed", fld |-> ""]>>, load_path |-> NoPath, has_store_value |-> FALSE, store_value |-> EmptyMap,
     fields |-> <<[name |-> "value", repr |-> TRUE, default |-> PyInt(1)]>>],
    [name |-> "QueryFocuserBusyStatus",
     kind |-> "literal", lit |-> <<"F", "B">>,
     alts |-> <<>>, named |-> <<>>,
     parse |-> "SimpleCommand", mro |-> <<"QueryFocuserBusyStatus", "SimpleCommand", "BaseCommand">>, default_type |-> "int", type_map |-> EmptyMap,
     store_path |-> NoPath, load_path |-> <<[lit |-> "focuser.busy", fld |-> ""]>>, has_store_value |-> FALSE, store_value |-> EmptyMap,
     fields |-> <<[name |-> "value", repr |-> FALSE, default |-> None]>>],
    [name |-> "GetAlignmentMenuEntry0",
     kind |-> "literal", lit |-> <<"G", "0">>,
     alts |-> <<>>, named |-> <<>>,
     parse |-> "SimpleCommand", mro |-> <<"GetAlignmentMenuEntry0", "SimpleCommand", "BaseCommand">>, default_type |-> "int", type_map |-> EmptyMap,
     store_path |-> NoPath, load_path |-> <<[lit |-> "mount.alignment.menu_0", fld |-> ""]>>, has_store_value |-> FALSE, store_value |-> EmptyMap,
     fields |-> <<[name |-> "value", repr |-> FALSE, default |-> None]>>],
    [name |-> "GetAlignmentMenuEntry1",
     kind |-> "literal", lit |-> <<"G", "1">>,
     alts |-> <<>>, named |-> <<>>,
     parse |-> "SimpleCommand", mro |-> <<"GetAlignmentMenuEntry1", "SimpleCommand", "BaseCommand">>, default_type |-> "int", type_map |-> EmptyMap,
     store_path |-> NoPath, load_path |-> <<[lit |-> "mount.alignment.menu_1", fld |-> ""]>>, has_store_value |-> FALSE, store_value |-> EmptyMap,
     fields |-> <<[name |-> "value", repr |-> FALSE, default |-> None]>>],
    [name |-> "GetAlignmentMenuEntry2",
     kind |-> "literal", lit |-> <<"G", "2">>,
     alts |-> <<>>, named |-> <<>>,
     parse |-> "SimpleCommand", mro |-> <<"GetAlignmentMenuEntry2", "SimpleCommand", "BaseCommand">>, default_type |-> "int", type_map |-> EmptyMap,
     store_path |-> NoPath, load_path |-> <<[lit |-> "mount.alignment.menu_2", fld |-> ""]>>, has_store_value |-> FALSE, store_value |-> EmptyMap,
     fields |-> <<[name |-> "value", repr |-> FALSE, default |-> None]>>],
    [name |-> "GetLocalTime12H",
     kind |-> "literal", lit |-> <<"G", "a">>,
     alts |-> <<>>, named |-> <<>>,
     parse |-> "SimpleCommand", mro |-> <<"GetLocalTime12H", "SimpleCommand", "BaseCommand">>, default_type |-> "int", type_map |-> EmptyMap,
     store_path |-> NoPath, load_path |-> <<[lit |-> "site.time", fld |-> ""]>>, has_store_value |-> FALSE, store_value |-> EmptyMap,
     fields |-> <<[name |-> "value", repr |-> FALSE, default |-> None]>>],
    [name |-> "GetAltitude",
     kind |-> "literal", lit |-> <<"G", "A">>,
     alts |-> <<>>, named |-> <<>>,
     parse |-> "SimpleCommand", mro |-> <<"GetAltitude", "SimpleCommand", "BaseCommand">>, default_type |-> "int", type_map |-> EmptyMap,
     store_path |-> NoPath, load_path |-> <<[lit |-> "mount.altitude", fld |-> ""]>>, has_store_value |-> FALSE, store_value |-> EmptyMap,
     fields |-> <<[name |-> "value", repr |-> FALSE, default |-> None]>>],
    [name |-> "GetBrowseBrighterMagnitudeLimit",
     kind |-> "literal", lit |-> <<"G", "b">>,
     alts |-> <<>>, named |-> <<>>,
     parse |-> "SimpleCommand", mro |-> <<"GetBrowseBrighterMagnitudeLimit", "SimpleCommand", "BaseCommand">>, default_type |-> "int", type_map |-> EmptyMap,
     store_path |-> NoPath, load_path |-> NoPath, has_store_value |-> FALSE, store_value |-> EmptyMap,
     fields |-> <<[name |-> "value", repr |-> FALSE, default |-> None]>>],
    [name |-> "GetDate",
     kind |-> "literal", lit |-> <<"G", "C">>,
     alts |-> <<>>, named |-> <<>>,
     parse |-> "SimpleCommand", mro |-> <<"GetDate", "SimpleCommand", "BaseCommand">>, default_type |-> "int", type_map |-> EmptyMap,
     store_path |-> NoPath, load_path |-> <<[lit |-> "site.date", fld |-> ""]>>, has_store_value |-> FALSE, store_value |-> EmptyMap,
     fields |-> <<[name |-> "value", repr |-> FALSE, default |-> None]>>],
    [name |-> "GetClockFormat",
     kind |-> "literal", lit |-> <<"G", "c">>,
     alts |-> <<>>, named |-> <<>>,
     parse |-> "SimpleCommand", mro |-> <<"GetClockFormat", "SimpleCommand", "BaseCommand">>, default_type |-> "int", type_map |-> EmptyMap,
     store_path |-> NoPath, load_path |-> <<[lit |-> "mount.clock_format_24h", fld |-> ""]>>, has_store_value |-> FALSE, store_value |-> EmptyMap,
     fields |-> <<[name |-> "value", repr |-> FALSE, default |-> None]>>],
    [name |-> "GetDeclination",
     kind |-> "literal", lit |-> <<"G", "D">>,
     alts |-> <<>>, named |-> <<>>,
     parse |-> "SimpleCommand", mro |-> <<"GetDeclination", "SimpleCommand", "BaseCommand">>, default_type |-> "int", type_map |-> EmptyMap,
     store_path |-> NoPath, load_path |-> <<[lit |-> "mount.declination", fld |-> ""]>>, has_store_value |-> FALSE, store_value |-> EmptyMap,
     fields |-> <<[name |-> "value", repr |-> FALSE, default |-> None]>>],
    [name |-> "GetSelectedObjectDeclination",
     kind |-> "literal", lit |-> <<"G", "d">>,
     alts |-> <<>>, named |-> <<>>,
     parse |-> "SimpleCommand", mro |-> <<"GetSelectedObjectDeclination", "SimpleCommand", "BaseCommand">>, default_type |-> "int", type_map |-> EmptyMap,
     store_path |-> NoPath, load_path |-> <<[lit |-> "mount.target.declination", fld |-> ""]>>, has_store_value |-> FALSE, store_value |-> EmptyMap,
     fields |-> <<[name |-> "value", repr |-> FALSE, default |-> None]>>],
    [name |-> "GetSelectedTargetDeclination",
     kind |-> "literal", lit |-> <<"G", "d">>,
     alts |-> <<>>, named |-> <<>>,
     parse |-> "SimpleCommand", mro |-> <<"GetSelectedTargetDeclination", "GetSelectedObjectDeclination", "SimpleCommand", "BaseCommand">>, default_type |-> "int", type_map |-> EmptyMap,
     store_path |-> NoPath, load_path |-> <<[lit |-> "mount.target.declination", fld |-> ""]>>, has_store_value |-> FALSE, store_value |-> EmptyMap,
     fields |-> <<[name |-> "value", repr |-> FALSE, default |-> None]>>],
    [name |-> "GetSelenographicLatitude",
     kind |-> "literal", lit |-> <<"G", "E">>,
     alts |-> <<>>, named |-> <<>>,
     parse |-> "SimpleCommand", mro |-> <<"GetSelenographicLatitude", "SimpleCommand", "BaseCommand">>, default_type |-> "int", type_map |-> EmptyMap,
     store_path |-> NoPath, load_path |-> <<[lit |-> "mount.target.selenographic.latitude", fld |-> ""]>>, has_store_value |-> FALSE, store_value |-> EmptyMap,
     fields |-> <<[name |-> "value", repr |-> FALSE, default |-> None]>>],
    [name |-> "GetSelenographicLongitude",
     kind |-> "literal", lit |-> <<"G", "e">>,
     alts |-> <<>>, named |-> <<>>,
     parse |-> "SimpleCommand", mro |-> <<"GetSelenographicLongitude", "SimpleCommand", "BaseCommand">>, default_type |-> "int", type_map |-> EmptyMap,
     store_path |-> NoPath, load_path |-> <<[lit |-> "mount.target.selenographic.longitude", fld |-> ""]>>, has_store_value |-> FALSE, store_value |-> EmptyMap,
     fields |-> <<[name |-> "value", repr |-> FALSE, default |-> None]>>],
    [name |-> "GetFindFieldDiameter",
     kind |-> "literal", lit |-> <<"G", "F">>,
     alts |-> <<>>, named |-> <<>>,
     parse |-> "SimpleCommand", mro |-> <<"GetFindFieldDiameter", "SimpleCommand", "BaseCommand">>, default_type |-> "int", type_map |-> EmptyMap,
     store_path |-> NoPath, load_path |-> NoPath, has_store_value |-> FALSE, store_value |-> EmptyMap,
     fields |-> <<[name |-> "value", repr |-> FALSE, default |-> None]>>],
    [name |-> "GetBrowseFaintMagnitudeLimit",
     kind |-> "literal", lit |-> <<"G", "f">>,
     alts |-> <<>>, named |-> <<>>,
     parse |-> "SimpleCommand", mro |-> <<"GetBrowseFaintMagnitudeLimit", "SimpleCommand", "BaseCommand">>, default_type |-> "int", type_map |-> EmptyMap,
     store_path |-> NoPath, load_path |-> NoPath, has_store_value |-> FALSE, store_value |-> EmptyMap,
     fields |-> <<[name |-> "value", repr |-> FALSE, default |-> None]>>],
    [name |-> "GetUTCOffsetTime",
     kind |-> "literal", lit |-> <<"G", "G">>,
     alts |-> <<>>, named |-> <<>>,
     parse |-> "SimpleCommand", mro |-> <<"GetUTCOffsetTime", "SimpleCommand", "BaseCommand">>, default_type |-> "int", type_map |-> EmptyMap,
     store_path |-> NoPath, load_path |-> <<[lit |-> "site.utc_offset", fld |-> ""]>>, has_store_value |-> FALSE, store_value |-> EmptyMap,
     fields |-> <<[name |-> "value", repr |-> FALSE, default |-> None]>>],
    [name |-> "GetSiteLongitude",
     kind |-> "literal", lit |-> <<"G", "g">>,
     alts |-> <<>>, named |-> <<>>,
     parse |-> "SimpleCommand", mro |-> <<"GetSiteLongitude", "SimpleCommand", "BaseCommand">>, default_type |-> "int", type_map |-> EmptyMap,
     store_path |-> NoPath, load_path |-> <<[lit |-> "site.longitude", fld |-> ""]>>, has_store_value |-> FALSE, store_value |-> EmptyMap,
     fields |-> <<[name |-> "value", repr |-> FALSE, default |-> None]>>],
    [name |-> "GetDailySavingsTimeSettings",
     kind |-> "literal", lit |-> <<"G", "H">>,
     alts |-> <<>>, named |-> <<>>,
     parse |-> "SimpleCommand", mro |-> <<"GetDailySavingsTimeSettings", "SimpleCommand", "BaseCommand">>, default_type |-> "int", type_map |-> EmptyMap,
     store_path |-> NoPath, load_path |-> <<[lit |-> "site.dst.enabled", fld |-> ""]>>, has_store_value |-> FALSE, store_value |-> EmptyMap,
     fields |-> <<[name |-> "value", repr |-> FALSE, default |-> None]>>],
    [name |-> "GetHighLimit",
     kind |-> "literal", lit |-> <<"G", "h">>,
     alts |-> <<>>, named |-> <<>>,
     parse |-> "SimpleCommand", mro |-> <<"GetHighLimit", "SimpleCommand", "BaseCommand">>, default_type |-> "int", type_map |-> EmptyMap,
     store_path |-> NoPath, load_path |-> NoPath, has_store_value |-> FALSE, store_value |-> EmptyMap,
     fields |-> <<[name |-> "value", repr |-> FALSE, default |-> None]>>],
    [name |-> "GetLocalTime24H",
     kind |-> "literal", lit |-> <<"G", "L">>,
     alts |-> <<>>, named |-> <<>>,
     parse |-> "SimpleCommand", mro |-> <<"GetLocalTime24H", "SimpleCommand", "BaseCommand">>, default_type |-> "int", type_map |-> EmptyMap,
     store_path |-> NoPath, load_path |-> <<[lit |-> "site.time", fld |-> ""]>>, has_store_value |-> FALSE, store_value |-> EmptyMap,
     fields |-> <<[name |-> "value", repr |-> FALSE, default |-> None]>>],
    [name |-> "GetDistanceToMeridian",
     kind |-> "literal", lit |-> <<"G", "m">>,
     alts |-> <<>>, named |-> <<>>,
     parse |-> "SimpleCommand", mro |-> <<"GetDistanceToMeridian", "SimpleCommand", "BaseCommand">>, default_type |-> "int", type_map |-> EmptyMap,
     store_path |-> NoPath, load_path |-> NoPath, has_store_value |-> FALSE, store_value |-> EmptyMap,
     fields |-> <<[name |-> "value", repr |-> FALSE, default |-> None]>>],
    [name |-> "GetLargerSizeLimit",
     kind |-> "literal", lit |-> <<"G", "l">>,
     alts |-> <<>>, named |-> <<>>,
     parse |-> "SimpleCommand", mro |-> <<"GetLargerSizeLimit", "SimpleCommand", "BaseCommand">>, default_type |-> "int", type_map |-> EmptyMap,
     store_path |-> NoPath, load_path |-> NoPath, has_store_value |-> FALSE, store_value |-> EmptyMap,
     fields |-> <<[name |-> "value", repr |-> FALSE, default |-> None]>>],
    [name |-> "GetSite1Name",
     kind |-> "literal", lit |-> <<"G", "M">>,
     alts |-> <<>>, named |-> <<>>,
     parse |-> "SimpleCommand", mro |-> <<"GetSite1Name", "SimpleCommand", "BaseCommand">>, default_type |-> "int", type_map |-> EmptyMap,
     store_path |-> NoPath, load_path |-> <<[lit |-> "site.name_1", fld |-> ""]>>, has_store_value |-> FALSE, store_value |-> EmptyMap,
     fields |-> <<[name |-> "value", repr |-> FALSE, default |-> None]>>],
    [name |-> "GetSite2Name",
     kind |-> "literal", lit |-> <<"G", "N">>,
     alts |-> <<>>, named |-> <<>>,
     parse |-> "SimpleCommand", mro |-> <<"GetSite2Name", "SimpleCommand", "BaseCommand">>, default_type |-> "int", type_map |-> EmptyMap,
     store_path |-> NoPath, load_path |-> <<[lit |-> "site.name_2", fld |-> ""]>>, has_store_value |-> FALSE, store_value |-> EmptyMap,
     fields |-> <<[name |-> "value", repr |-> FALSE, default |-> None]>>],
    [name |-> "GetSite3Name",
     kind |-> "literal", lit |-> <<"G", "O">>,
     alts |-> <<>>, named |-> <<>>,
     parse |-> "SimpleCommand", mro |-> <<"GetSite3Name", "SimpleCommand", "BaseCommand">>, default_type |-> "int", type_map |-> EmptyMap,
     store_path |-> NoPath, load_path |-> <<[lit |-> "site.name_3", fld |-> ""]>>, has_store_value |-> FALSE, store_value |-> EmptyMap,
     fields |-> <<[name |-> "value", repr |-> FALSE, default |-> None]>>],
    [name |-> "GetSite4Name",
     kind |-> "literal", lit |-> <<"G", "P">>,
     alts |-> <<>>, named |-> <<>>,
     parse |-> "SimpleCommand", mro |-> <<"GetSite4Name", "SimpleCommand", "BaseCommand">>, default_type |-> "int", type_map |-> EmptyMap,
     store_path |-> NoPath, load_path |-> <<[lit |-> "site.name_4", fld |-> ""]>>, has_store_value |-> FALSE, store_value |-> EmptyMap,
     fields |-> <<[name |-> "value", repr |-> FALSE, default |-> None]>>],
    [name |-> "GetBacklashValues",
     kind |-> "literal", lit |-> <<"G", "p", "B">>,
     alts |-> <<>>, named |-> <<>>,
     parse |-> "SimpleCommand", mro |-> <<"GetBacklashValues", "SimpleCommand", "BaseCommand">>, default_type |-> "int", type_map |-> EmptyMap,
     store_path |-> NoPath, load_path |-> <<[lit |-> "mount.backlash.values", fld |-> ""]>>, has_store_value |-> FALSE, store_value |-> EmptyMap,
     fields |-> <<[name |-> "value", repr |-> FALSE, default |-> None]>>],
    [name |-> "GetHomeData",
     kind |-> "literal", lit |-> <<"G", "p", "H">>,
     alts |-> <<>>, named |-> <<>>,
     parse |-> "SimpleCommand", mro |-> <<"GetHomeData", "SimpleCommand", "BaseCommand">>, default_type |-> "int", type_map |-> EmptyMap,
     store_path |-> NoPath, load_path |-> NoPath, has_store_value |-> FALSE, store_value |-> EmptyMap,
     fields |-> <<[name |-> "value", repr |-> FALSE, default |-> None]>>],
    [name |-> "GetSensorOffsets",
     kind |-> "literal", lit |-> <<"G", "p", "S">>,
     alts |-> <<>>, named |-> <<>>,
     parse |-> "SimpleCommand", mro |-> <<"GetSensorOffsets", "SimpleCommand", "BaseCommand">>, default_type |-> "int", type_map |-> EmptyMap,
     store_path |-> NoPath, load_path |-> NoPath, has_store_value |-> FALSE, store_value |-> EmptyMap,
     fields |-> <<[name |-> "value", repr |-> FALSE, default |-> None]>>],
    [name |-> "GetLowerLimit",
     kind |-> "literal", lit |-> <<"G", "o">>,
     alts |-> <<>>, named |-> <<>>,
     parse |-> "SimpleCommand", mro |-> <<"GetLowerLimit", "SimpleCommand", "BaseCommand">>, default_type |-> "int", type_map |-> EmptyMap,
     store_path |-> NoPath, load_path |-> NoPath, has_store_value |-> FALSE, store_value |-> EmptyMap,
     fields |-> <<[name |-> "value", repr |-> FALSE, default |-> None]>>],
    [name |-> "GetMinimumQualityForFind",
     kind |-> "literal", lit |-> <<"G", "q">>,
     alts |-> <<>>, named |-> <<>>,
     parse |-> "SimpleCommand", mro |-> <<"GetMinimumQualityForFind", "SimpleCommand", "BaseCommand">>, default_type |-> "int", type_map |-> EmptyMap,
     store_path |-> NoPath, load_path |-> NoPath, has_store_value |-> FALSE, store_value |-> EmptyMap,
     fields |-> <<[name |-> "value", repr |-> FALSE, default |-> None]>>],
    [name |-> "GetRightAscencion",
     kind |-> "literal", lit |-> <<"G", "R">>,
     alts |-> <<>>, named |-> <<>>,
     parse |-> "SimpleCommand", mro |-> <<"GetRightAscencion", "SimpleCommand", "BaseCommand">>, default_type |-> "int", type_map |-> EmptyMap,
     store_path |-> NoPath, load_path |-> <<[lit |-> "mount.right_ascencion", fld |-> ""]>>, has_store_value |-> FALSE, store_value |-> EmptyMap,
     fields |-> <<[name |-> "value", repr |-> FALSE, default |-> None]>>],
    [name |-> "GetSelectedObjectRightAscencion",
     kind |-> "literal", lit |-> <<"G", "r">>,
     alts |-> <<>>, named |-> <<>>,
     parse |-> "SimpleCommand", mro |-> <<"GetSelectedObjectRightAscencion", "SimpleCommand", "BaseCommand">>, default_type |-> "int", type_map |-> EmptyMap,
     store_path |-> NoPath, load_path |-> <<[lit |-> "mount.target.right_ascencion", fld |-> ""]>>, has_store_value |-> FALSE, store_value |-> EmptyMap,
     fields |-> <<[name |-> "value", repr |-> FALSE, default |-> None]>>],
    [name |-> "GetSelectedTargetRightAscencion",
     kind |-> "literal", lit |-> <<"G", "r">>,
     alts |-> <<>>, named |-> <<>>,
     parse |-> "SimpleCommand", mro |-> <<"GetSelectedTargetRightAscencion", "GetSelectedObjectRightAscencion", "SimpleCommand", "BaseCommand">>, default_type |-> "int", type_map |-> EmptyMap,
     store_path |-> NoPath, load_path |-> <<[lit |-> "mount.target.right_ascencion", fld |-> ""]>>, has_store_value |-> FALSE, store_value |-> EmptyMap,
     fields |-> <<[name |-> "value", repr |-> FALSE, default |-> None]>>],
    [name |-> "GetSiderealTime",
     kind |-> "literal", lit |-> <<"G", "S">>,
     alts |-> <<>>, named |-> <<>>,
     parse |-> "SimpleCommand", mro |-> <<"GetSiderealTime", "SimpleCommand", "BaseCommand">>, default_type |-> "int", type_map |-> EmptyMap,
     store_path |-> NoPath, load_path |-> NoPath, has_store_value |-> FALSE, store_value |-> EmptyMap,
     fields |-> <<[name |-> "value", repr |-> FALSE, default |-> None]>>],
    [name |-> "GetSmallerSizeLimit",
     kind |-> "literal", lit |-> <<"G", "s">>,
     alts |-> <<>>, named |-> <<>>,
     parse |-> "SimpleCommand", mro |-> <<"GetSmallerSizeLimit", "SimpleCommand", "BaseCommand">>, default_type |-> "int", type_map |-> EmptyMap,
     store_path |-> NoPath, load_path |-> NoPath, has_store_value |-> FALSE, store_value |-> EmptyMap,
     fields |-> <<[name |-> "value", repr |-> FALSE, default |-> None]>>],
    [name |-> "GetTrackingRate",
     kind |-> "literal", lit |-> <<"G", "T">>,
     alts |-> <<>>, named |-> <<>>,
     parse |-> "SimpleCommand", mro |-> <<"GetTrackingRate", "SimpleCommand", "BaseCommand">>, default_type |-> "int", type_map |-> EmptyMap,
     store_path |-> NoPath, load_path |-> <<[lit |-> "mount.tracking.rate", fld |-> ""]>>, has_store_value |-> FALSE, store_value |-> EmptyMap,
     fields |-> <<[name |-> "value", repr |-> FALSE, default |-> None]>>],
    [name |-> "GetSiteLatitude",
     kind |-> "literal", lit |-> <<"G", "t">>,
     alts |-> <<>>, named |-> <<>>,
     parse |-> "SimpleCommand", mro |-> <<"GetSiteLatitude", "SimpleCommand", "BaseCommand">>, default_type |-> "int", type_map |-> EmptyMap,
     store_path |-> NoPath, load_path |-> <<[lit |-> "site.latitude", fld |-> ""]>>, has_store_value |-> FALSE, store_value |-> EmptyMap,
     fields |-> <<[name |-> "value", repr |-> FALSE, default |-> None]>>],
    [name |-> "GetFirmwareDate",
     kind |-> "literal", lit |-> <<"G", "V", "D">>,
     alts |-> <<>>, named |-> <<>>,
     parse |-> "SimpleCommand", mro |-> <<"GetFirmwareDate", "SimpleCommand", "BaseCommand">>, default_type |-> "int", type_map |-> EmptyMap,
     store_path |-> NoPath, load_path |-> <<[lit |-> "firmware.date", fld |-> ""]>>, has_store_value |-> FALSE, store_value |-> EmptyMap,
     fields |-> <<[name |-> "value", repr |-> FALSE, default |-> None]>>],
    [name |-> "GetFirmwareNumber",
     kind |-> "literal", lit |-> <<"G", "V", "N">>,
     alts |-> <<>>, named |-> <<>>,
     parse |-> "SimpleCommand", mro |-> <<"GetFirmwareNumber", "SimpleCommand", "BaseCommand">>, default_type |-> "int", type_map |-> EmptyMap,
     store_path |-> NoPath, load_path |-> <<[lit |-> "firmware.number", fld |-> ""]>>, has_store_value |-> FALSE, store_value |-> EmptyMap,
     fields |-> <<[name |-> "value", repr |-> FALSE, default |-> None]>>],
    [name |-> "GetProductName",
     kind |-> "literal", lit |-> <<"G", "V", "P">>,
     alts |-> <<>>, named |-> <<>>,
     parse |-> "SimpleCommand", mro |-> <<"GetProductName", "SimpleCommand", "BaseCommand">>, default_type |-> "int", type_map |-> EmptyMap,
     store_path |-> NoPath, load_path |-> NoPath, has_store_value |-> FALSE, store_value |-> EmptyMap,
     fields |-> <<[name |-> "value", repr |-> FALSE, default |-> None]>>],
    [name |-> "GetFirmwareTime",
     kind |-> "literal", lit |-> <<"G", "V", "T">>,
     alts |-> <<>>, named |-> <<>>,
     parse |-> "SimpleCommand", mro |-> <<"GetFirmwareTime", "SimpleCommand", "BaseCommand">>, default_type |-> "int", type_map |-> EmptyMap,
     store_path |-> NoPath, load_path |-> <<[lit |-> "firmware.time", fld |-> ""]>>, has_store_value |-> FALSE, store_value |-> EmptyMap,
     fields |-> <<[name |-> "value", repr |-> FALSE, default |-> None]>>],
    [name |-> "GetAlignmentStatus",
     kind |-> "literal", lit |-> <<"G", "W">>,
     alts |-> <<>>, named |-> <<>>,
     parse |-> "SimpleCommand", mro |-> <<"GetAlignmentStatus", "SimpleCommand", "BaseCommand">>, default_type |-> "int", type_map |-> EmptyMap,
     store_path |-> NoPath, load_path |-> NoPath, has_store_value |-> FALSE, store_value |-> EmptyMap,
     fields |-> <<[name |-> "value", repr |-> FALSE, default |-> None]>>],
    [name |-> "GetDeepskySearchString",
     kind |-> "literal", lit |-> <<"G", "y">>,
     alts |-> <<>>, named |-> <<>>,
     parse |-> "SimpleCommand", mro |-> <<"GetDeepskySearchString", "SimpleCommand", "BaseCommand">>, default_type |-> "int", type_map |-> EmptyMap,
     store_path |-> NoPath, load_path |-> NoPath, has_store_value |-> FALSE, store_value |-> EmptyMap,
     fields |-> <<[name |-> "value", repr |-> FALSE, default |-> None]>>],
    [name |-> "GetAzimuth",
     kind |-> "literal", lit |-> <<"G", "Z">>,
     alts |-> <<>>, named |-> <<>>,
     parse |-> "SimpleCommand", mro |-> <<"GetAzimuth", "SimpleCommand", "BaseCommand">>, default_type |-> "int", type_map |-> EmptyMap,
     store_path |-> NoPath, load_path |-> <<[lit |-> "mount.azimuth", fld |-> ""]>>, has_store_value |-> FALSE, store_value |-> EmptyMap,
     fields |-> <<[name |-> "value", repr |-> FALSE, default |-> None]>>],
    [name |-> "CalibrateHomePosition",
     kind |-> "literal", lit |-> <<"h", "C">>,
     alts |-> <<>>, named |-> <<>>,
     parse |-> "SimpleCommand", mro |-> <<"CalibrateHomePosition", "SimpleCommand", "BaseCommand">>, default_type |-> "int", type_map |-> EmptyMap,
     store_path |-> NoPath, load_path |-> NoPath, has_store_value |-> FALSE, store_value |-> EmptyMap,
     fields |-> <<[name |-> "value", repr |-> FALSE, default |-> None]>>],
    [name |-> "SeekHomePosition",
     kind |-> "literal", lit |-> <<"h", "F">>,
     alts |-> <<>>, named |-> <<>>,
     parse |-> "SimpleCommand", mro |-> <<"SeekHomePosition", "SimpleCommand", "BaseCommand">>, default_type |-> "int", type_map |-> EmptyMap,
     store_path |-> NoPath, load_path |-> NoPath, has_store_value |-> FALSE, store_value |-> EmptyMap,
     fields |-> <<[name |-> "value", repr |-> FALSE, default |-> None]>>],
    [name |-> "BypassDSTEntry",
     kind |-> "regex", lit |-> <<>>,
     alts |-> <<<<Lit("h"), Lit("I"), Item({" "}, Down(1, 0), "", FALSE), Item(Digit, <<2>>, "year", FALSE), Item(Digit, <<2>>, "month", FALSE), Item(Digit, <<2>>, "day", FALSE), Item(Digit, <<2>>, "hours", FALSE), Item(Digit, <<2>>, "minutes", FALSE), Item(Digit, <<2>>, "seconds", FALSE)>>>>, named |-> <<"year", "month", "day", "hours", "minutes", "seconds">>,
     parse |-> "SimpleNumericCommand", mro |-> <<"BypassDSTEntry", "SimpleNumericCommand", "SimpleCommand", "BaseCommand">>, default_type |-> "int", type_map |-> EmptyMap,
     store_path |-> NoPath, load_path |-> NoPath, has_store_value |-> FALSE, store_value |-> EmptyMap,
     fields |-> <<[name |-> "value", repr |-> FALSE, default |-> None], [name |-> "year", repr |-> TRUE, default |-> None], [name |-> "month", repr |-> TRUE, default |-> None], [name |-> "day", repr |-> TRUE, default |-> None], [name |-> "hours", repr |-> TRUE, default |-> None], [name |-> "minutes", repr |-> TRUE, default |-> None], [name |-> "seconds", repr |-> TRUE, default |-> None]>>],
    [name |-> "Sleep",
     kind |-> "literal", lit |-> <<"h", "N">>,
     alts |-> <<>>, named |-> <<>>,
     parse |-> "SimpleCommand", mro |-> <<"Sleep", "SimpleCommand", "BaseCommand">>, default_type |-> "int", type_map |-> EmptyMap,
     store_path |-> NoPath, load_path |-> NoPath, has_store_value |-> FALSE, store_value |-> EmptyMap,
     fields |-> <<[name |-> "value", repr |-> FALSE, default |-> None]>>],
    [name |-> "Park",
     kind |-> "literal", lit |-> <<"h", "P">>,
     alts |-> <<>>, named |-> <<>>,
     parse |-> "SimpleCommand", mro |-> <<"Park", "SimpleCommand", "BaseCommand">>, default_type |-> "int", type_map |-> EmptyMap,
     store_path |-> NoPath, load_path |-> NoPath, has_store_value |-> FALSE, store_value |-> EmptyMap,
     fields |-> <<[name |-> "value", repr |-> FALSE, default |-> None]>>],
    [name |-> "SetParkPosition",
     kind |-> "literal", lit |-> <<"h", "S">>,
     alts |-> <<>>, named |-> <<>>,
     parse |-> "SimpleCommand", mro |-> <<"SetParkPosition", "SimpleCommand", "BaseCommand">>, default_type |-> "int", type_map |-> EmptyMap,
     store_path |-> NoPath, load_path |-> NoPath, has_store_value |-> FALSE, store_value |-> EmptyMap,
     fields |-> <<[name |-> "value", repr |-> FALSE, default |-> None]>>],
    [name |-> "WakeUp",
     kind |-> "literal", lit |-> <<"h", "W">>,
     alts |-> <<>>, named |-> <<>>,
     parse |-> "SimpleCommand", mro |-> <<"WakeUp", "SimpleCommand", "BaseCommand">>, default_type |-> "int", type_map |-> EmptyMap,
     store_path |-> NoPath, load_path |-> NoPath, has_store_value |-> FALSE, store_value |-> EmptyMap,
     fields |-> <<[name |-> "value", repr |-> FALSE, default |-> None]>>],
    [name |-> "QueryHomeStatus",
     kind |-> "literal", lit |-> <<"h", "?">>,
     alts |-> <<>>, named |-> <<>>,
     parse |-> "SimpleCommand", mro |-> <<"QueryHomeStatus", "SimpleCommand", "BaseCommand">>, default_type |-> "int", type_map |-> EmptyMap,
     store_path |-> NoPath, load_path |-> NoPath, has_store_value |-> FALSE, store_value |-> EmptyMap,
     fields |-> <<[name |-> "value", repr |-> FALSE, default |-> None]>>],
    [name |-> "ToggleTimeFormat",
     kind |-> "literal", lit |-> <<"H">>,
     alts |-> <<>>, named |-> <<>>,
     parse |-> "SimpleCommand", mro |-> <<"ToggleTimeFormat", "SimpleCommand", "BaseCommand">>, default_type |-> "int", type_map |-> EmptyMap,
     store_path |-> <<[lit |-> "mount.clock_format_24h", fld |-> ""]>>, load_path |-> NoPath, has_store_value |-> TRUE, store_value |-> ("value" :> PyBool(TRUE)),
     fields |-> <<[name |-> "value", repr |-> FALSE, default |-> None]>>],
    [name |-> "Initialize",
     kind |-> "literal", lit |-> <<"I">>,
     alts |-> <<>>, named |-> <<>>,
     parse |-> "SimpleCommand", mro |-> <<"Initialize", "SimpleCommand", "BaseCommand">>, default_type |-> "int", type_map |-> EmptyMap,
     store_path |-> NoPath, load_path |-> NoPath, has_store_value |-> FALSE, store_value |-> EmptyMap,
     fields |-> <<[name |-> "value", repr |-> FALSE, default |-> None]>>],
    [name |-> "SlewToTargetAltAz",
     kind |-> "literal", lit |-> <<"M", "A">>,
     alts |-> <<>>, named |-> <<>>,
     parse |-> "SimpleCommand", mro |-> <<"SlewToTargetAltAz", "SimpleCommand", "BaseCommand">>, default_type |-> "int", type_map |-> EmptyMap,
     store_path |-> NoPath, load_path |-> NoPath, has_store_value |-> FALSE, store_value |-> EmptyMap,
     fields |-> <<[name |-> "value", repr |-> FALSE, default |-> None]>>],
    [name |-> "GuideNorth",
     kind |-> "regex", lit |-> <<>>,
     alts |-> <<<<Lit("M"), Lit("g"), Lit("n"), Item({" "}, Down(1, 0), "", FALSE), Item(Digit, <<4>>, "1", FALSE)>>>>, named |-> <<>>,
     parse |-> "SimpleNumericCommand", mro |-> <<"GuideNorth", "SimpleNumericCommand", "SimpleCommand", "BaseCommand">>, default_type |-> "int", type_map |-> EmptyMap,
     store_path |-> NoPath, load_path |-> NoPath, has_store_value |-> FALSE, store_value |-> EmptyMap,
     fields |-> <<[name |-> "value", repr |-> TRUE, default |-> PyInt(0)]>>],
    [name |-> "GuideSouth",
     kind |-> "regex", lit |-> <<>>,
     alts |-> <<<<Lit("M"), Lit("g"), Lit("s"), Item({" "}, Down(1, 0), "", FALSE), Item(Digit, <<4>>, "1", FALSE)>>>>, named |-> <<>>,
     parse |-> "SimpleNumericCommand", mro |-> <<"GuideSouth", "SimpleNumericCommand", "SimpleCommand", "BaseCommand">>, default_type |-> "int", type_map |-> EmptyMap,
     store_path |-> NoPath, load_path |-> NoPath, has_store_value |-> FALSE, store_value |-> EmptyMap,
     fields |-> <<[name |-> "value", repr |-> TRUE, default |-> PyInt(0)]>>],
    [name |-> "GuideEast",
     kind |-> "regex", lit |-> <<>>,
     alts |-> <<<<Lit("M"), Lit("g"), Lit("e"), Item({" "}, Down(1, 0), "", FALSE), Item(Digit, <<4>>, "1", FALSE)>>>>, named |-> <<>>,
     parse |-> "SimpleNumericCommand", mro |-> <<"GuideEast", "SimpleNumericCommand", "SimpleCommand", "BaseCommand">>, default_type |-> "int", type_map |-> EmptyMap,
     store_path |-> NoPath, load_path |-> NoPath, has_store_value |-> FALSE, store_value |-> EmptyMap,
     fields |-> <<[name |-> "value", repr |-> TRUE, default |-> PyInt(0)]>>],
    [name |-> "GuideWest",
     kind |-> "regex", lit |-> <<>>,
     alts |-> <<<<Lit("M"), Lit("g"), Lit("w"), Item({" "}, Down(1, 0), "", FALSE), Item(Digit, <<4>>, "1", FALSE)>>>>, named |-> <<>>,
     parse |-> "SimpleNumericCommand", mro |-> <<"GuideWest", "SimpleNumericCommand", "SimpleCommand", "BaseCommand">>, default_type |-> "int", type_map |-> EmptyMap,
     store_path |-> NoPath, load_path |-> NoPath, has_store_value |-> FALSE, store_value |-> EmptyMap,
     fields |-> <<[name |-> "value", repr |-> TRUE, default |-> PyInt(0)]>>],
    [name |-> "MoveEast",
     kind |-> "literal", lit |-> <<"M", "e">>,
     alts |-> <<>>, named |-> <<>>,
     parse |-> "SimpleCommand", mro |-> <<"MoveEast", "SimpleCommand", "BaseCommand">>, default_type |-> "int", type_map |-> EmptyMap,
     store_path |-> NoPath, load_path |-> NoPath, has_store_value |-> FALSE, store_value |-> EmptyMap,
     fields |-> <<[name |-> "value", repr |-> FALSE, default |-> None]>>],
    [name |-> "MoveNorth",
     kind |-> "literal", lit |-> <<"M", "n">>,
     alts |-> <<>>, named |-> <<>>,
     parse |-> "SimpleCommand", mro |-> <<"MoveNorth", "SimpleCommand", "BaseCommand">>, default_type |-> "int", type_map |-> EmptyMap,
     store_path |-> NoPath, load_path |-> NoPath, has_store_value |-> FALSE, store_value |-> EmptyMap,
     fields |-> <<[name |-> "value", repr |-> FALSE, default |-> None]>>],
    [name |-> "MoveSouth",
     kind |-> "literal", lit |-> <<"M", "s">>,
     alts |-> <<>>, named |-> <<>>,
     parse |-> "SimpleCommand", mro |-> <<"MoveSouth", "SimpleCommand", "BaseCommand">>, default_type |-> "int", type_map |-> EmptyMap,
     store_path |-> NoPath, load_path |-> NoPath, has_store_value |-> FALSE, store_value |-> EmptyMap,
     fields |-> <<[name |-> "value", repr |-> FALSE, default |-> None]>>],
    [name |-> "MoveWest",
     kind |-> "literal", lit |-> <<"M", "w">>,
     alts |-> <<>>, named |-> <<>>,
     parse |-> "SimpleCommand", mro |-> <<"MoveWest", "SimpleCommand", "BaseCommand">>, default_type |-> "int", type_map |-> EmptyMap,
     store_path |-> NoPath, load_path |-> NoPath, has_store_value |-> FALSE, store_value |-> EmptyMap,
     fields |-> <<[name |-> "value", repr |-> FALSE, default |-> None]>>],
    [name |-> "SlewToTargetObject",
     kind |-> "literal", lit |-> <<"M", "S">>,
     alts |-> <<>>, named |-> <<>>,
     parse |-> "SimpleCommand", mro |-> <<"SlewToTargetObject", "SlewToTargetAltAz", "SimpleCommand", "BaseCommand">>, default_type |-> "int", type_map |-> EmptyMap,
     store_path |-> NoPath, load_path |-> NoPath, has_store_value |-> FALSE, store_value |-> EmptyMap,
     fields |-> <<[name |-> "value", repr |-> FALSE, default |-> None]>>],
    [name |-> "SlewToTarget",
     kind |-> "literal", lit |-> <<"M", "S">>,
     alts |-> <<>>, named |-> <<>>,
     parse |-> "SimpleCommand", mro |-> <<"SlewToTarget", "SlewToTargetObject", "SlewToTargetAltAz", "SimpleCommand", "BaseCommand">>, default_type |-> "int", type_map |-> EmptyMap,
     store_path |-> NoPath, load_path |-> NoPath, has_store_value |-> FALSE, store_value |-> EmptyMap,
     fields |-> <<[name |-> "value", repr |-> FALSE, default |-> None]>>],
    [name |-> "HighPrecisionToggle",
     kind |-> "literal", lit |-> <<"P">>,
     alts |-> <<>>, named |-> <<>>,
     parse |-> "SimpleCommand", mro |-> <<"HighPrecisionToggle", "SimpleCommand", "BaseCommand">>, default_type |-> "int", type_map |-> EmptyMap,
     store_path |-> <<[lit |-> "high_precision_enabled", fld |-> ""]>>, load_path |-> NoPath, has_store_value |-> TRUE, store_value |-> ("value" :> PyBool(TRUE)),
     fields |-> <<[name |-> "value", repr |-> FALSE, default |-> None]>>],
    [name |-> "PrecisionPositionToggle",
     kind |-> "literal", lit |-> <<"U">>,
     alts |-> <<>>, named |-> <<>>,
     parse |-> "SimpleCommand", mro |-> <<"PrecisionPositionToggle", "SimpleCommand", "BaseCommand">>, default_type |-> "int", type_map |-> EmptyMap,
     store_path |-> <<[lit |-> "high_precision_enabled", fld |-> ""]>>, load_path |-> NoPath, has_store_value |-> TRUE, store_value |-> ("value" :> PyBool(TRUE)),
     fields |-> <<[name |-> "value", repr |-> FALSE, default |-> None]>>],
    [name |-> "SelectSite",
     kind |-> "regex", lit |-> <<>>,
     alts |-> <<<<Lit("W"), Item({" "}, Down(1, 0), "", FALSE), Item(Digit, <<1>>, "1", FALSE)>>>>, named |-> <<>>,
     parse |-> "SimpleNumericCommand", mro |-> <<"SelectSite", "SimpleNumericCommand", "SimpleCommand", "BaseCommand">>, default_type |-> "int", type_map |-> EmptyMap,
     store_path |-> <<[lit |-> "site.selected", fld |-> ""]>>, load_path |-> NoPath, has_store_value |-> FALSE, store_value |-> EmptyMap,
     fields |-> <<[name |-> "value", repr |-> TRUE, default |-> PyInt(0)]>>],
    [name |-> "HaltAll",
     kind |-> "literal", lit |-> <<"Q">>,
     alts |-> <<>>, named |-> <<>>,
     parse |-> "SimpleCommand", mro |-> <<"HaltAll", "SimpleCommand", "BaseCommand">>, default_type |-> "int", type_map |-> EmptyMap,
     store_path |-> NoPath, load_path |-> NoPath, has_store_value |-> FALSE, store_value |-> EmptyMap,
     fields |-> <<[name |-> "value", repr |-> FALSE, default |-> None]>>],
    [name |-> "HaltEastward",
     kind |-> "literal", lit |-> <<"Q", "e">>,
     alts |-> <<>>, named |-> <<>>,
     parse |-> "SimpleCommand", mro |-> <<"HaltEastward", "SimpleCommand", "BaseCommand">>, default_type |-> "int", type_map |-> EmptyMap,
     store_path |-> NoPath, load_path |-> NoPath, has_store_value |-> FALSE, store_value |-> EmptyMap,
     fields |-> <<[name |-> "value", repr |-> FALSE, default |-> None]>>],
    [name |-> "HaltNorthwawrd",
     kind |-> "literal", lit |-> <<"Q", "n">>,
     alts |-> <<>>, named |-> <<>>,
     parse |-> "SimpleCommand", mro |-> <<"HaltNorthwawrd", "SimpleCommand", "BaseCommand">>, default_type |-> "int", type_map |-> EmptyMap,
     store_path |-> NoPath, load_path |-> NoPath, has_store_value |-> FALSE, store_value |-> EmptyMap,
     fields |-> <<[name |-> "value", repr |-> FALSE, default |-> None]>>],
    [name |-> "HaltSouthward",
     kind |-> "literal", lit |-> <<"Q", "s">>,
     alts |-> <<>>, named |-> <<>>,
     parse |-> "SimpleCommand", mro |-> <<"HaltSouthward", "SimpleCommand", "BaseCommand">>, default_type |-> "int", type_map |-> EmptyMap,
     store_path |-> NoPath, load_path |-> NoPath, has_store_value |-> FALSE, store_value |-> EmptyMap,
     fields |-> <<[name |-> "value", repr |-> FALSE, default |-> None]>>],
    [name |-> "HaltWestward",
     kind |-> "literal", lit |-> <<"Q", "w">>,
     alts |-> <<>>, named |-> <<>>,
     parse |-> "SimpleCommand", mro |-> <<"HaltWestward", "SimpleCommand", "BaseCommand">>, default_type |-> "int", type_map |-> EmptyMap,
     store_path |-> NoPath, load_path |-> NoPath, has_store_value |-> FALSE, store_value |-> EmptyMap,
     fields |-> <<[name |-> "value", repr |-> FALSE, default |-> None]>>],
    [name |-> "SetSlewRateToCentering",
     kind |-> "literal", lit |-> <<"R", "C">>,
     alts |-> <<>>, named |-> <<>>,
     parse |-> "SimpleCommand", mro |-> <<"SetSlewRateToCentering", "SimpleCommand", "BaseCommand">>, default_type |-> "int", type_map |-> EmptyMap,
     store_path |-> <<[lit |-> "mount.slew.rate", fld |-> ""]>>, load_path |-> NoPath, has_store_value |-> TRUE, store_value |-> ("value" :> PyStr("centering")),
     fields |-> <<[name |-> "value", repr |-> FALSE, default |-> None]>>],
    [name |-> "SetSlewRateToGuiding",
     kind |-> "literal", lit |-> <<"R", "G">>,
     alts |-> <<>>, named |-> <<>>,
     parse |-> "SimpleCommand", mro |-> <<"SetSlewRateToGuiding", "SimpleCommand", "BaseCommand">>, default_type |-> "int", type_map |-> EmptyMap,
     store_path |-> <<[lit |-> "mount.slew.rate", fld |-> ""]>>, load_path |-> NoPath, has_store_value |-> TRUE, store_value |-> ("value" :> PyStr("guiding")),
     fields |-> <<[name |-> "value", repr |-> FALSE, default |-> None]>>],
    [name |-> "SetSlewRateToFinding",
     kind |-> "literal", lit |-> <<"R", "M">>,
     alts |-> <<>>, named |-> <<>>,
     parse |-> "SimpleCommand", mro |-> <<"SetSlewRateToFinding", "SimpleCommand", "BaseCommand">>, default_type |-> "int", type_map |-> EmptyMap,
     store_path |-> <<[lit |-> "mount.slew.rate", fld |-> ""]>>, load_path |-> NoPath, has_store_value |-> TRUE, store_value |-> ("value" :> PyStr("finding")),
     fields |-> <<[name |-> "value", repr |-> FALSE, default |-> None]>>],
    [name |-> "SetSlewRateToMax",
     kind |-> "literal", lit |-> <<"R", "S">>,
     alts |-> <<>>, named |-> <<>>,
     parse |-> "SimpleCommand", mro |-> <<"SetSlewRateToMax", "SimpleCommand", "BaseCommand">>, default_type |-> "int", type_map |-> EmptyMap,
     store_path |-> <<[lit |-> "mount.slew.rate", fld |-> ""]>>, load_path |-> NoPath, has_store_value |-> TRUE, store_value |-> ("value" :> PyStr("max")),
     fields |-> <<[name |-> "value", repr |-> FALSE, default |-> None]>>],
    [name |-> "SetRightAscentionSlewRate",
     kind |-> "regex", lit |-> <<>>,
     alts |-> <<<<Lit("R"), Lit("A"), Item({" "}, Down(1, 0), "", FALSE), Item(Digit, <<1>>, "value", FALSE), Item(Digit, <<1>>, "value", FALSE), Item({"."}, <<1>>, "value", FALSE), Item(Digit, <<1>>, "value", FALSE)>>>>, named |-> <<"value">>,
     parse |-> "SimpleNumericCommand", mro |-> <<"SetRightAscentionSlewRate", "SimpleNumericCommand", "SimpleCommand", "BaseCommand">>, default_type |-> "float", type_map |-> EmptyMap,
     store_path |-> <<[lit |-> "mount.slew.rate.right_ascencion", fld |-> ""]>>, load_path |-> NoPath, has_store_value |-> FALSE, store_value |-> EmptyMap,
     fields |-> <<[name |-> "value", repr |-> TRUE, default |-> PyInt(0)]>>],
    [name |-> "SetAzimuthSlewRate",
     kind |-> "regex", lit |-> <<>>,
     alts |-> <<<<Lit("R"), Lit("A"), Item({" "}, Down(1, 0), "", FALSE), Item(Digit, <<1>>, "value", FALSE), Item(Digit, <<1>>, "value", FALSE), Item({"."}, <<1>>, "value", FALSE), Item(Digit, <<1>>, "value", FALSE)>>>>, named |-> <<"value">>,
     parse |-> "SimpleNumericCommand", mro |-> <<"SetAzimuthSlewRate", "SetRightAscentionSlewRate", "SimpleNumericCommand", "SimpleCommand", "BaseCommand">>, default_type |-> "float", type_map |-> EmptyMap,
     store_path |-> <<[lit |-> "mount.slew.rate.right_ascencion", fld |-> ""]>>, load_path |-> NoPath, has_store_value |-> FALSE, store_value |-> EmptyMap,
     fields |-> <<[name |-> "value", repr |-> TRUE, default |-> PyInt(0)]>>],
    [name |-> "SetDeclinationSlewRate",
     kind |-> "regex", lit |-> <<>>,
     alts |-> <<<<Lit("R"), Lit("e"), Item({" "}, Down(1, 0), "", FALSE), Item(Digit, <<1>>, "value", FALSE), Item(Digit, <<1>>, "value", FALSE), Item({"."}, <<1>>, "value", FALSE), Item(Digit, <<1>>, "value", FALSE)>>>>, named |-> <<"value">>,
     parse |-> "SimpleNumericCommand", mro |-> <<"SetDeclinationSlewRate", "SimpleNumericCommand", "SimpleCommand", "BaseCommand">>, default_type |-> "float", type_map |-> EmptyMap,
     store_path |-> <<[lit |-> "mount.slew.rate.declination", fld |-> ""]>>, load_path |-> NoPath, has_store_value |-> FALSE, store_value |-> EmptyMap,
     fields |-> <<[name |-> "value", repr |-> TRUE, default |-> PyInt(0)]>>],
    [name |-> "SetAltitudeSlewRate",
     kind |-> "regex", lit |-> <<>>,
     alts |-> <<<<Lit("R"), Lit("e"), Item({" "}, Down(1, 0), "", FALSE), Item(Digit, <<1>>, "value", FALSE), Item(Digit, <<1>>, "value", FALSE), Item({"."}, <<1>>, "value", FALSE), Item(Digit, <<1>>, "value", FALSE)>>>>, named |-> <<"value">>,
     parse |-> "SimpleNumericCommand", mro |-> <<"SetAltitudeSlewRate", "SetDeclinationSlewRate", "SimpleNumericCommand", "SimpleCommand", "BaseCommand">>, default_type |-> "float", type_map |-> EmptyMap,
     store_path |-> <<[lit |-> "mount.slew.rate.declination", fld |-> ""]>>, load_path |-> NoPath, has_store_value |-> FALSE, store_value |-> EmptyMap,
     fields |-> <<[name |-> "value", repr |-> TRUE, default |-> PyInt(0)]>>],
    [name |-> "SetGuideRate",
     kind |-> "regex", lit |-> <<>>,
     alts |-> <<<<Lit("R"), Lit("g"), Item({" "}, Down(1, 0), "", FALSE), Item(Digit, <<1>>, "value", FALSE), Item(Digit, <<1>>, "value", FALSE), Item({"."}, <<1>>, "value", FALSE), Item(Digit, <<1>>, "value", FALSE)>>>>, named |-> <<"value">>,
     parse |-> "SimpleNumericCommand", mro |-> <<"SetGuideRate", "SimpleNumericCommand", "SimpleCommand", "BaseCommand">>, default_type |-> "float", type_map |-> EmptyMap,
     store_path |-> <<[lit |-> "mount.guide.rate", fld |-> ""]>>, load_path |-> NoPath, has_store_value |-> FALSE, store_value |-> EmptyMap,
     fields |-> <<[name |-> "value", repr |-> TRUE, default |-> PyInt(0)]>>],
    [name |-> "SetTargetAltitude",
     kind |-> "regex", lit |-> <<>>,
     alts |-> <<<<Lit("S"), Lit("a"), Item({" "}, Down(1, 0), "", FALSE), Item({"-", "+", " "}, Down(1, 0), "degrees", FALSE), Item(Digit, <<2>>, "degrees", FALSE), Lit("*"), Item(Digit, <<2>>, "minutes", FALSE), Item({"'"}, Down(1, 0), "", FALSE), Item(Digit, <<2, 0>>, "seconds", TRUE)>>>>, named |-> <<"degrees", "minutes", "seconds">>,
     parse |-> "SignedDMSCommand", mro |-> <<"SetTargetAltitude", "SignedDMSCommand", "SimpleNumericCommand", "SimpleCommand", "BaseCommand">>, default_type |-> "int", type_map |-> EmptyMap,
     store_path |-> <<[lit |-> "mount.target.altitude", fld |-> ""]>>, load_path |-> NoPath, has_store_value |-> FALSE, store_value |-> EmptyMap,
     fields |-> <<[name |-> "value", repr |-> FALSE, default |-> None], [name |-> "degrees", repr |-> TRUE, default |-> PyInt(0)], [name |-> "minutes", repr |-> TRUE, default |-> PyInt(0)], [name |-> "seconds", repr |-> TRUE, default |-> PyInt(0)]>>],
    [name |-> "SetBrighterLimit",
     kind |-> "regex", lit |-> <<>>,
     alts |-> <<<<Lit("S"), Lit("b"), Item({" "}, Down(1, 0), "", FALSE), Item({"-", "+", " "}, Down(1, 0), "value", FALSE), Item(Digit, <<1>>, "value", FALSE), Item(Digit, <<1>>, "value", FALSE), Item({"."}, <<1>>, "value", FALSE), Item(Digit, <<1>>, "value", FALSE)>>>>, named |-> <<"value">>,
     parse |-> "SimpleNumericCommand", mro |-> <<"SetBrighterLimit", "SimpleNumericCommand", "SimpleCommand", "BaseCommand">>, default_type |-> "float", type_map |-> EmptyMap,
     store_path |-> NoPath, load_path |-> NoPath, has_store_value |-> FALSE, store_value |-> EmptyMap,
     fields |-> <<[name |-> "value", repr |-> TRUE, default |-> PyInt(0)]>>],
    [name |-> "SetBaudRate",
     kind |-> "regex", lit |-> <<>>,
     alts |-> <<<<Lit("S"), Lit("B"), Item({" "}, Down(1, 0), "", FALSE), Item(Digit, <<1>>, "value", FALSE)>>>>, named |-> <<"value">>,
     parse |-> "SimpleNumericCommand", mro |-> <<"SetBaudRate", "SimpleNumericCommand", "SimpleCommand", "BaseCommand">>, default_type |-> "int", type_map |-> EmptyMap,
     store_path |-> <<[lit |-> "comms.baud_rate", fld |-> ""]>>, load_path |-> NoPath, has_store_value |-> FALSE, store_value |-> EmptyMap,
     fields |-> <<[name |-> "value", repr |-> TRUE, default |-> PyInt(0)]>>],
    [name |-> "SetHandboxDate",
     kind |-> "regex", lit |-> <<>>,
     alts |-> <<<<Lit("S"), Lit("C"), Item({" "}, Down(1, 0), "", FALSE), Item(Digit, <<1>>, "month", FALSE), Item(Digit, <<1>>, "month", FALSE), Lit("/"), Item(Digit, <<1>>, "day", FALSE), Item(Digit, <<1>>, "day", FALSE), Lit("/"), Item(Digit, <<1>>, "year", FALSE), Item(Digit, <<1>>, "year", FALSE)>>>>, named |-> <<"month", "day", "year">>,
     parse |-> "SimpleNumericCommand", mro |-> <<"SetHandboxDate", "SimpleNumericCommand", "SimpleCommand", "BaseCommand">>, default_type |-> "int", type_map |-> EmptyMap,
     store_path |-> <<[lit |-> "site.date", fld |-> ""]>>, load_path |-> NoPath, has_store_value |-> FALSE, store_value |-> EmptyMap,
     fields |-> <<[name |-> "value", repr |-> FALSE, default |-> None], [name |-> "month", repr |-> TRUE, default |-> None], [name |-> "day", repr |-> TRUE, default |-> None], [name |-> "year", repr |-> TRUE, default |-> None]>>],
    [name |-> "SetTargetDeclination",
     kind |-> "regex", lit |-> <<>>,
     alts |-> <<<<Lit("S"), Lit("d"), Item({" "}, Down(1, 0), "", FALSE), Item({"-", "+", " "}, Down(1, 0), "degrees", FALSE), Item(Digit, <<2>>, "degrees", FALSE), Lit(":"), Item(Digit, <<2>>, "minutes", FALSE), Item({":"}, Down(1, 0), "", FALSE), Item(Digit, <<2, 0>>, "seconds", TRUE)>>>>, named |-> <<"degrees", "minutes", "seconds">>,
     parse |-> "SignedDMSCommand", mro |-> <<"SetTargetDeclination", "SignedDMSCommand", "SimpleNumericCommand", "SimpleCommand", "BaseCommand">>, default_type |-> "int", type_map |-> EmptyMap,
     store_path |-> <<[lit |-> "mount.target.declination", fld |-> ""]>>, load_path |-> NoPath, has_store_value |-> FALSE, store_value |-> EmptyMap,
     fields |-> <<[name |-> "value", repr |-> FALSE, default |-> None], [name |-> "degrees", repr |-> TRUE, default |-> PyInt(0)], [name |-> "minutes", repr |-> TRUE, default |-> PyInt(0)], [name |-> "seconds", repr |-> TRUE, default |-> PyInt(0)]>>],
    [name |-> "SetTargetSelenographicLatitude",
     kind |-> "regex", lit |-> <<>>,
     alts |-> <<<<Lit("S"), Lit("E"), Item({" "}, Down(1, 0), "", FALSE), Item({"-", "+", " "}, Down(1, 0), "degrees", FALSE), Item(Digit, <<2>>, "degrees", FALSE), Lit(":"), Item(Digit, <<2>>, "minutes", FALSE), Item({":"}, Down(1, 0), "", FALSE), Item(Digit, <<2, 0>>, "seconds", TRUE)>>>>, named |-> <<"degrees", "minutes", "seconds">>,
     parse |-> "SignedDMSCommand", mro |-> <<"SetTargetSelenographicLatitude", "SignedDMSCommand", "SimpleNumericCommand", "SimpleCommand", "BaseCommand">>, default_type |-> "int", type_map |-> EmptyMap,
     store_path |-> <<[lit |-> "mount.target.selenographic.latitude", fld |-> ""]>>, load_path |-> NoPath, has_store_value |-> FALSE, store_value |-> EmptyMap,
     fields |-> <<[name |-> "value", repr |-> FALSE, default |-> None], [name |-> "degrees", repr |-> TRUE, default |-> PyInt(0)], [name |-> "minutes", repr |-> TRUE, default |-> PyInt(0)], [name |-> "seconds", repr |-> TRUE, default |-> PyInt(0)]>>],
    [name |-> "SetTargetSelenographicLongitude",
     kind |-> "regex", lit |-> <<>>,
     alts |-> <<<<Lit("S"), Lit("e"), Item({" "}, Down(1, 0), "", FALSE), Item({"-", "+", " "}, Down(1, 0), "degrees", FALSE), Item(Digit, <<2>>, "degrees", FALSE), Lit(":"), Item(Digit, <<2>>, "minutes", FALSE), Item({":"}, Down(1, 0), "", FALSE), Item(Digit, <<2, 0>>, "seconds", TRUE)>>>>, named |-> <<"degrees", "minutes", "seconds">>,
     parse |-> "SignedDMSCommand", mro |-> <<"SetTargetSelenographicLongitude", "SignedDMSCommand", "SimpleNumericCommand", "SimpleCommand", "BaseCommand">>, default_type |-> "int", type_map |-> EmptyMap,
     store_path |-> <<[lit |-> "mount.target.selenographic.longitude", fld |-> ""]>>, load_path |-> NoPath, has_store_value |-> FALSE, store_value |-> EmptyMap,
     fields |-> <<[name |-> "value", repr |-> FALSE, default |-> None], [name |-> "degrees", repr |-> TRUE, default |-> PyInt(0)], [name |-> "minutes", repr |-> TRUE, default |-> PyInt(0)], [name |-> "seconds", repr |-> TRUE, default |-> PyInt(0)]>>],
    [name |-> "SetFaintMagnitude",
     kind |-> "regex", lit |-> <<>>,
     alts |-> <<<<Lit("S"), Lit("f"), Item({" "}, Down(1, 0), "", FALSE), Item({"-", "+", " "}, Down(1, 0), "value", FALSE), Item(Digit, <<1>>, "value", FALSE), Item(Digit, <<1>>, "value", FALSE), Item({"."}, <<1>>, "value", FALSE), Item(Digit, <<1>>, "value", FALSE)>>>>, named |-> <<"value">>,
     parse |-> "SimpleNumericCommand", mro |-> <<"SetFaintMagnitude", "SimpleNumericCommand", "SimpleCommand", "BaseCommand">>, default_type |-> "float", type_map |-> EmptyMap,
     store_path |-> NoPath, load_path |-> NoPath, has_store_value |-> FALSE, store_value |-> EmptyMap,
     fields |-> <<[name |-> "value", repr |-> TRUE, default |-> PyInt(0)]>>],
    [name |-> "SetFieldDiameter",
     kind |-> "regex", lit |-> <<>>,
     alts |-> <<<<Lit("S"), Lit("F"), Item({" "}, Down(1, 0), "", FALSE), Item(Digit, <<3>>, "value", FALSE)>>>>, named |-> <<"value">>,
     parse |-> "SimpleNumericCommand", mro |-> <<"SetFieldDiameter", "SimpleNumericCommand", "SimpleCommand", "BaseCommand">>, default_type |-> "int", type_map |-> EmptyMap,
     store_path |-> NoPath, load_path |-> NoPath, has_store_value |-> FALSE, store_value |-> EmptyMap,
     fields |-> <<[name |-> "value", repr |-> TRUE, default |-> PyInt(0)]>>],
    [name |-> "SetSiteLongitude",
     kind |-> "regex", lit |-> <<>>,
     alts |-> <<<<Lit("S"), Lit("g"), Item({" "}, Down(1, 0), "", FALSE), Item(Digit, <<3>>, "degrees", FALSE), Item({"*", ":"}, <<1>>, "", FALSE), Item(Digit, <<1>>, "minutes", FALSE), Item(Digit, <<1>>, "minutes", FALSE)>>>>, named |-> <<"degrees", "minutes">>,
     parse |-> "SimpleNumericCommand", mro |-> <<"SetSiteLongitude", "SimpleNumericCommand", "SimpleCommand", "BaseCommand">>, default_type |-> "int", type_map |-> EmptyMap,
     store_path |-> <<[lit |-> "site.longitude", fld |-> ""]>>, load_path |-> NoPath, has_store_value |-> FALSE, store_value |-> EmptyMap,
     fields |-> <<[name |-> "value", repr |-> FALSE, default |-> None], [name |-> "degrees", repr |-> TRUE, default |-> None], [name |-> "minutes", repr |-> TRUE, default |-> None]>>],
    [name |-> "SetUTCOffset",
     kind |-> "regex", lit |-> <<>>,
     alts |-> <<<<Lit("S"), Lit("G"), Item({" "}, Down(1, 0), "", FALSE), Item({"-", "+", " "}, Down(1, 0), "value", FALSE), Item(Digit, <<1>>, "value", FALSE), Item(Digit, <<1>>, "value", FALSE), Item({"."}, Down(1, 0), "value", FALSE), Item(Digit, Down(1, 0), "value", FALSE)>>>>, named |-> <<"value">>,
     parse |-> "SimpleNumericCommand", mro |-> <<"SetUTCOffset", "SimpleNumericCommand", "SimpleCommand", "BaseCommand">>, default_type |-> "float", type_map |-> EmptyMap,
     store_path |-> <<[lit |-> "site.utc_offset", fld |-> ""]>>, load_path |-> NoPath, has_store_value |-> FALSE, store_value |-> EmptyMap,
     fields |-> <<[name |-> "value", repr |-> TRUE, default |-> PyInt(0)]>>],
    [name |-> "SetDSTEnabled",
     kind |-> "regex", lit |-> <<>>,
     alts |-> <<<<Lit("S"), Lit("H"), Item({" "}, Down(1, 0), "", FALSE), Item(Digit, <<1>>, "value", FALSE)>>>>, named |-> <<"value">>,
     parse |-> "SimpleNumericCommand", mro |-> <<"SetDSTEnabled", "SimpleNumericCommand", "SimpleCommand", "BaseCommand">>, default_type |-> "int", type_map |-> EmptyMap,
     store_path |-> <<[lit |-> "site.dst.enabled", fld |-> ""]>>, load_path |-> NoPath, has_store_value |-> FALSE, store_value |-> EmptyMap,
     fields |-> <<[name |-> "value", repr |-> TRUE, default |-> PyInt(0)]>>],
    [name |-> "SetMaximumElevation",
     kind |-> "regex", lit |-> <<>>,
     alts |-> <<<<Lit("S"), Lit("h"), Item({" "}, Down(1, 0), "", FALSE), Item(Digit, <<1>>, "value", FALSE), Item(Digit, <<1>>, "value", FALSE)>>>>, named |-> <<"value">>,
     parse |-> "SimpleNumericCommand", mro |-> <<"SetMaximumElevation", "SimpleNumericCommand", "SimpleCommand", "BaseCommand">>, default_type |-> "int", type_map |-> EmptyMap,
     store_path |-> NoPath, load_path |-> NoPath, has_store_value |-> FALSE, store_value |-> EmptyMap,
     fields |-> <<[name |-> "value", repr |-> TRUE, default |-> PyInt(0)]>>],
    [name |-> "SetSmallestObjectSize",
     kind |-> "regex", lit |-> <<>>,
     alts |-> <<<<Lit("S"), Lit("l"), Item({" "}, Down(1, 0), "", FALSE), Item(Digit, <<3>>, "1", FALSE)>>>>, named |-> <<>>,
     parse |-> "SimpleNumericCommand", mro |-> <<"SetSmallestObjectSize", "SimpleNumericCommand", "SimpleCommand", "BaseCommand">>, default_type |-> "int", type_map |-> EmptyMap,
     store_path |-> NoPath, load_path |-> NoPath, has_store_value |-> FALSE, store_value |-> EmptyMap,
     fields |-> <<[name |-> "value", repr |-> TRUE, default |-> PyInt(0)]>>],
    [name |-> "SetLargestObjectSize",
     kind |-> "regex", lit |-> <<>>,
     alts |-> <<<<Lit("S"), Lit("s"), Item({" "}, Down(1, 0), "", FALSE), Item(Digit, <<3>>, "1", FALSE)>>>>, named |-> <<>>,
     parse |-> "SimpleNumericCommand", mro |-> <<"SetLargestObjectSize", "SimpleNumericCommand", "SimpleCommand", "BaseCommand">>, default_type |-> "int", type_map |-> EmptyMap,
     store_path |-> NoPath, load_path |-> NoPath, has_store_value |-> FALSE, store_value |-> EmptyMap,
     fields |-> <<[name |-> "value", repr |-> TRUE, default |-> PyInt(0)]>>],
    [name |-> "SetLocalTime",
     kind |-> "regex", lit |-> <<>>,
     alts |-> <<<<Lit("S"), Lit("L"), Item({" "}, Down(1, 0), "", FALSE), Item(Digit, <<2>>, "hours", FALSE), Lit(":"), Item(Digit, <<2>>, "minutes", FALSE), Lit(":"), Item(Digit, <<2>>, "seconds", FALSE)>>>>, named |-> <<"hours", "minutes", "seconds">>,
     parse |-> "SimpleNumericCommand", mro |-> <<"SetLocalTime", "SimpleNumericCommand", "SimpleCommand", "BaseCommand">>, default_type |-> "int", type_map |-> EmptyMap,
     store_path |-> <<[lit |-> "site.time", fld |-> ""]>>, load_path |-> NoPath, has_store_value |-> FALSE, store_value |-> EmptyMap,
     fields |-> <<[name |-> "value", repr |-> FALSE, default |-> None], [name |-> "hours", repr |-> TRUE, default |-> None], [name |-> "minutes", repr |-> TRUE, default |-> None], [name |-> "seconds", repr |-> TRUE, default |-> None]>>],
    [name |-> "EnableFlexureCorrection",
     kind |-> "literal", lit |-> <<"S", "m", "+">>,
     alts |-> <<>>, named |-> <<>>,
     parse |-> "SimpleCommand", mro |-> <<"EnableFlexureCorrection", "SimpleCommand", "BaseCommand">>, default_type |-> "int", type_map |-> EmptyMap,
     store_path |-> <<[lit |-> "mount.correction.flexure.enabled", fld |-> ""]>>, load_path |-> NoPath, has_store_value |-> TRUE, store_value |-> ("value" :> PyBool(TRUE)),
     fields |-> <<[name |-> "value", repr |-> FALSE, default |-> None]>>],
    [name |-> "DisableFlexureCorrection",
     kind |-> "literal", lit |-> <<"S", "m", "-">>,
     alts |-> <<>>, named |-> <<>>,
     parse |-> "SimpleCommand", mro |-> <<"DisableFlexureCorrection", "SimpleCommand", "BaseCommand">>, default_type |-> "int", type_map |-> EmptyMap,
     store_path |-> <<[lit |-> "mount.correction.flexure.enabled", fld |-> ""]>>, load_path |-> NoPath, has_store_value |-> TRUE, store_value |-> ("value" :> PyBool(FALSE)),
     fields |-> <<[name |-> "value", repr |-> FALSE, default |-> None]>>],
    [name |-> "SetSite1Name",
     kind |-> "regex", lit |-> <<>>,
     alts |-> <<<<Lit("S"), Lit("M"), Item({" "}, Down(1, 0), "", FALSE), Item(Word \cup Space, Down(15, 1), "1", FALSE)>>>>, named |-> <<>>,
     parse |-> "SimpleNumericCommand", mro |-> <<"SetSite1Name", "SimpleNumericCommand", "SimpleCommand", "BaseCommand">>, default_type |-> "str", type_map |-> EmptyMap,
     store_path |-> <<[lit |-> "site.name_1", fld |-> ""]>>, load_path |-> NoPath, has_store_value |-> FALSE, store_value |-> EmptyMap,
     fields |-> <<[name |-> "value", repr |-> TRUE, default |-> PyInt(0)]>>],
    [name |-> "SetSite2Name",
     kind |-> "regex", lit |-> <<>>,
     alts |-> <<<<Lit("S"), Lit("N"), Item({" "}, Down(1, 0), "", FALSE), Item(Word \cup Space, Down(15, 1), "1", FALSE)>>>>, named |-> <<>>,
     parse |-> "SimpleNumericCommand", mro |-> <<"SetSite2Name", "SimpleNumericCommand", "SimpleCommand", "BaseCommand">>, default_type |-> "str", type_map |-> EmptyMap,
     store_path |-> <<[lit |-> "site.name_2", fld |-> ""]>>, load_path |-> NoPath, has_store_value |-> FALSE, store_value |-> EmptyMap,
     fields |-> <<[name |-> "value", repr |-> TRUE, default |-> PyInt(0)]>>],
    [name |-> "SetSite3Name",
     kind |-> "regex", lit |-> <<>>,
     alts |-> <<<<Lit("S"), Lit("O"), Item({" "}, Down(1, 0), "", FALSE), Item(Word \cup Space, Down(15, 1), "1", FALSE)>>>>, named |-> <<>>,
     parse |-> "SimpleNumericCommand", mro |-> <<"SetSite3Name", "SimpleNumericCommand", "SimpleCommand", "BaseCommand">>, default_type |-> "str", type_map |-> EmptyMap,
     store_path |-> <<[lit |-> "site.name_3", fld |-> ""]>>, load_path |-> NoPath, has_store_value |-> FALSE, store_value |-> EmptyMap,
     fields |-> <<[name |-> "value", repr |-> TRUE, default |-> PyInt(0)]>>],
    [name |-> "SetSite4Name",
     kind |-> "regex", lit |-> <<>>,
     alts |-> <<<<Lit("S"), Lit("P"), Item({" "}, Down(1, 0), "", FALSE), Item(Word \cup Space, Down(15, 1), "1", FALSE)>>>>, named |-> <<>>,
     parse |-> "SimpleNumericCommand", mro |-> <<"SetSite4Name", "SimpleNumericCommand", "SimpleCommand", "BaseCommand">>, default_type |-> "str", type_map |-> EmptyMap,
     store_path |-> <<[lit |-> "site.name_4", fld |-> ""]>>, load_path |-> NoPath, has_store_value |-> FALSE, store_value |-> EmptyMap,
     fields |-> <<[name |-> "value", repr |-> TRUE, default |-> PyInt(0)]>>],
    [name |-> "SetLowestElevation",
     kind |-> "regex", lit |-> <<>>,
     alts |-> <<<<Lit("S"), Lit("o"), Item({" "}, Down(1, 0), "", FALSE), Item(Digit, <<1>>, "1", FALSE), Item(Digit, <<1>>, "1", FALSE), Lit("*")>>>>, named |-> <<>>,
     parse |-> "SimpleNumericCommand", mro |-> <<"SetLowestElevation", "SimpleNumericCommand", "SimpleCommand", "BaseCommand">>, default_type |-> "int", type_map |-> EmptyMap,
     store_path |-> NoPath, load_path |-> NoPath, has_store_value |-> FALSE, store_value |-> EmptyMap,
     fields |-> <<[name |-> "value", repr |-> TRUE, default |-> PyInt(0)]>>],
    [name |-> "SetBacklashValues",
     kind |-> "regex", lit |-> <<>>,
     alts |-> <<<<Lit("S"), Lit("p"), Lit("B"), Item({" "}, Down(1, 0), "", FALSE), Item(Digit, <<1>>, "1", FALSE), Item(Digit, <<1>>, "1", FALSE)>>>>, named |-> <<>>,
     parse |-> "SimpleNumericCommand", mro |-> <<"SetBacklashValues", "SimpleNumericCommand", "SimpleCommand", "BaseCommand">>, default_type |-> "int", type_map |-> EmptyMap,
     store_path |-> NoPath, load_path |-> NoPath, has_store_value |-> FALSE, store_value |-> EmptyMap,
     fields |-> <<[name |-> "value", repr |-> TRUE, default |-> PyInt(0)]>>],
    [name |-> "SetHomeData",
     kind |-> "regex", lit |-> <<>>,
     alts |-> <<<<Lit("S"), Lit("p"), Lit("H"), Item({" "}, Down(1, 0), "", FALSE), Item(Digit, <<1>>, "1", FALSE), Item(Digit, <<1>>, "1", FALSE)>>>>, named |-> <<>>,
     parse |-> "SimpleNumericCommand", mro |-> <<"SetHomeData", "SimpleNumericCommand", "SimpleCommand", "BaseCommand">>, default_type |-> "int", type_map |-> EmptyMap,
     store_path |-> NoPath, load_path |-> NoPath, has_store_value |-> FALSE, store_value |-> EmptyMap,
     fields |-> <<[name |-> "value", repr |-> TRUE, default |-> PyInt(0)]>>],
    [name |-> "SetSensorOffsets",
     kind |-> "regex", lit |-> <<>>,
     alts |-> <<<<Lit("S"), Lit("p"), Lit("S"), Item({" "}, Down(1, 0), "", FALSE), Item(Digit, <<1>>, "1", FALSE), Item(Digit, <<1>>, "1", FALSE), Item(Digit, <<1>>, "1", FALSE)>>>>, named |-> <<>>,
     parse |-> "SimpleNumericCommand", mro |-> <<"SetSensorOffsets", "SimpleNumericCommand", "SimpleCommand", "BaseCommand">>, default_type |-> "int", type_map |-> EmptyMap,
     store_path |-> NoPath, load_path |-> NoPath, has_store_value |-> FALSE, store_value |-> EmptyMap,
     fields |-> <<[name |-> "value", repr |-> TRUE, default |-> PyInt(0)]>>],
    [name |-> "StepQualityLimit",
     kind |-> "literal", lit |-> <<"S", "q">>,
     alts |-> <<>>, named |-> <<>>,
     parse |-> "SimpleCommand", mro |-> <<"StepQualityLimit", "SimpleCommand", "BaseCommand">>, default_type |-> "int", type_map |-> EmptyMap,
     store_path |-> NoPath, load_path |-> NoPath, has_store_value |-> FALSE, store_value |-> EmptyMap,
     fields |-> <<[name |-> "value", repr |-> FALSE, default |-> None]>>],
    [name |-> "SetTargetRightAscencion",
     kind |-> "regex", lit |-> <<>>,
     alts |-> <<<<Lit("S"), Lit("r"), Item({" "}, Down(1, 0), "", FALSE), Item(Digit, <<2>>, "hours", FALSE), Lit(":"), Item(Digit, <<2>>, "minutes", FALSE), Item({"."}, Down(1, 0), "minutes", FALSE), Item(Digit, Down(1, 0), "minutes", FALSE), Item({":"}, Down(1, 0), "", FALSE), Item(Digit, <<2, 0>>, "seconds", TRUE)>>>>, named |-> <<"hours", "minutes", "seconds">>,
     parse |-> "SimpleNumericCommand", mro |-> <<"SetTargetRightAscencion", "SimpleNumericCommand", "SimpleCommand", "BaseCommand">>, default_type |-> "int", type_map |-> ("minutes" :> "float"),
     store_path |-> <<[lit |-> "mount.target.right_ascencion", fld |-> ""]>>, load_path |-> NoPath, has_store_value |-> FALSE, store_value |-> EmptyMap,
     fields |-> <<[name |-> "value", repr |-> FALSE, default |-> None], [name |-> "hours", repr |-> TRUE, default |-> None], [name |-> "minutes", repr |-> TRUE, default |-> None], [name |-> "seconds", repr |-> TRUE, default |-> None]>>],
    [name |-> "SetLocalSiderealTime",
     kind |-> "regex", lit |-> <<>>,
     alts |-> <<<<Lit("S"), Lit("S"), Item({" "}, Down(1, 0), "", FALSE), Item(Digit, <<2>>, "hours", FALSE), Lit(":"), Item(Digit, <<2>>, "minutes", FALSE), Lit(":"), Item(Digit, <<2>>, "seconds", FALSE)>>>>, named |-> <<"hours", "minutes", "seconds">>,
     parse |-> "SimpleNumericCommand", mro |-> <<"SetLocalSiderealTime", "SimpleNumericCommand", "SimpleCommand", "BaseCommand">>, default_type |-> "int", type_map |-> EmptyMap,
     store_path |-> NoPath, load_path |-> NoPath, has_store_value |-> FALSE, store_value |-> EmptyMap,
     fields |-> <<[name |-> "value", repr |-> FALSE, default |-> None], [name |-> "hours", repr |-> TRUE, default |-> None], [name |-> "minutes", repr |-> TRUE, default |-> None], [name |-> "seconds", repr |-> TRUE, default |-> None]>>],
    [name |-> "SetSiteLatitude",
     kind |-> "regex", lit |-> <<>>,
     alts |-> <<<<Lit("S"), Lit("t"), Item({" "}, Down(1, 0), "", FALSE), Item({"-", "+", " "}, Down(1, 0), "degrees", FALSE), Item(Digit, <<2>>, "degrees", FALSE), Item({"*", ":"}, <<1>>, "", FALSE), Item(Digit, <<1>>, "minutes", FALSE), Item(Digit, <<1>>, "minutes", FALSE), Lit(":"), Item(Digit, <<1>>, "seconds", FALSE), Item(Digit, <<1>>, "seconds", FALSE)>>>>, named |-> <<"degrees", "minutes", "seconds">>,
     parse |-> "SignedDMSCommand", mro |-> <<"SetSiteLatitude", "SignedDMSCommand", "SimpleNumericCommand", "SimpleCommand", "BaseCommand">>, default_type |-> "int", type_map |-> EmptyMap,
     store_path |-> <<[lit |-> "site.latitude", fld |-> ""]>>, load_path |-> NoPath, has_store_value |-> FALSE, store_value |-> EmptyMap,
     fields |-> <<[name |-> "value", repr |-> FALSE, default |-> None], [name |-> "degrees", repr |-> TRUE, default |-> PyInt(0)], [name |-> "minutes", repr |-> TRUE, default |-> PyInt(0)], [name |-> "seconds", repr |-> TRUE, default |-> PyInt(0)]>>],
    [name |-> "SetTrackingRate",
     kind |-> "regex", lit |-> <<>>,
     alts |-> <<<<Lit("S"), Lit("T"), Item({" "}, Down(1, 0), "", FALSE), Item(Digit, Down(4, 2), "1", FALSE), Item({"."}, Down(1, 0), "1", FALSE), Item(Digit, Down(6, 0), "1", FALSE)>>>>, named |-> <<>>,
     parse |-> "SimpleNumericCommand", mro |-> <<"SetTrackingRate", "SimpleNumericCommand", "SimpleCommand", "BaseCommand">>, default_type |-> "float", type_map |-> EmptyMap,
     store_path |-> <<[lit |-> "mount.tracking.rate", fld |-> ""]>>, load_path |-> NoPath, has_store_value |-> FALSE, store_value |-> EmptyMap,
     fields |-> <<[name |-> "value", repr |-> TRUE, default |-> PyInt(0)]>>],
    [name |-> "EnableAltitudePEC",
     kind |-> "literal", lit |-> <<"S", "T", "A", "+">>,
     alts |-> <<>>, named |-> <<>>,
     parse |-> "SimpleCommand", mro |-> <<"EnableAltitudePEC", "SimpleCommand", "BaseCommand">>, default_type |-> "int", type_map |-> EmptyMap,
     store_path |-> <<[lit |-> "mount.correction.pec.altitude.enabled", fld |-> ""]>>, load_path |-> NoPath, has_store_value |-> TRUE, store_value |-> ("value" :> PyBool(TRUE)),
     fields |-> <<[name |-> "value", repr |-> FALSE, default |-> None]>>],
    [name |-> "DisableAltitudePEC",
     kind |-> "literal", lit |-> <<"S", "T", "A", "-">>,
     alts |-> <<>>, named |-> <<>>,
     parse |-> "SimpleCommand", mro |-> <<"DisableAltitudePEC", "SimpleCommand", "BaseCommand">>, default_type |-> "int", type_map |-> EmptyMap,
     store_path |-> <<[lit |-> "mount.correction.pec.altitude.enabled", fld |-> ""]>>, load_path |-> NoPath, has_store_value |-> TRUE, store_value |-> ("value" :> PyBool(FALSE)),
     fields |-> <<[name |-> "value", repr |-> FALSE, default |-> None]>>],
    [name |-> "EnableRightAscencionPEC",
     kind |-> "literal", lit |-> <<"S", "T", "Z", "+">>,
     alts |-> <<>>, named |-> <<>>,
     parse |-> "SimpleCommand", mro |-> <<"EnableRightAscencionPEC", "SimpleCommand", "BaseCommand">>, default_type |-> "int", type_map |-> EmptyMap,
     store_path |-> <<[lit |-> "mount.correction.pec.right_ascencion.enabled", fld |-> ""]>>, load_path |-> NoPath, has_store_value |-> TRUE, store_value |-> ("value" :> PyBool(TRUE)),
     fields |-> <<[name |-> "value", repr |-> FALSE, default |-> None]>>],
    [name |-> "EnableAzimuthPEC",
     kind |-> "literal", lit |-> <<"S", "T", "Z", "+">>,
     alts |-> <<>>, named |-> <<>>,
     parse |-> "SimpleCommand", mro |-> <<"EnableAzimuthPEC", "EnableRightAscencionPEC", "SimpleCommand", "BaseCommand">>, default_type |-> "int", type_map |-> EmptyMap,
     store_path |-> <<[lit |-> "mount.correction.pec.right_ascencion.enabled", fld |-> ""]>>, load_path |-> NoPath, has_store_value |-> TRUE, store_value |-> ("value" :> PyBool(TRUE)),
     fields |-> <<[name |-> "value", repr |-> FALSE, default |-> None]>>],
    [name |-> "DisableRightAscencionPEC",
     kind |-> "literal", lit |-> <<"S", "T", "Z", "-">>,
     alts |-> <<>>, named |-> <<>>,
     parse |-> "SimpleCommand", mro |-> <<"DisableRightAscencionPEC", "SimpleCommand", "BaseCommand">>, default_type |-> "int", type_map |-> EmptyMap,
     store_path |-> <<[lit |-> "mount.correction.pec.right_ascencion.enabled", fld |-> ""]>>, load_path |-> NoPath, has_store_value |-> TRUE, store_value |-> ("value" :> PyBool(FALSE)),
     fields |-> <<[name |-> "value", repr |-> FALSE, default |-> None]>>],
    [name |-> "DisableAzimuthPEC",
     kind |-> "literal", lit |-> <<"S", "T", "Z", "-">>,
     alts |-> <<>>, named |-> <<>>,
     parse |-> "SimpleCommand", mro |-> <<"DisableAzimuthPEC", "DisableRightAscencionPEC", "SimpleCommand", "BaseCommand">>, default_type |-> "int", type_map |-> EmptyMap,
     store_path |-> <<[lit |-> "mount.correction.pec.right_ascencion.enabled", fld |-> ""]>>, load_path |-> NoPath, has_store_value |-> TRUE, store_value |-> ("value" :> PyBool(FALSE)),
     fields |-> <<[name |-> "value", repr |-> FALSE, default |-> None]>>],
    [name |-> "SetSlewRate",
     kind |-> "regex", lit |-> <<>>,
     alts |-> <<<<Lit("S"), Lit("w"), Item({" "}, Down(1, 0), "", FALSE), Item(Digit, <<1>>, "1", FALSE)>>>>, named |-> <<>>,
     parse |-> "SimpleNumericCommand", mro |-> <<"SetSlewRate", "SimpleNumericCommand", "SimpleCommand", "BaseCommand">>, default_type |-> "int", type_map |-> EmptyMap,
     store_path |-> <<[lit |-> "mount.slew.rate", fld |-> ""]>>, load_path |-> NoPath, has_store_value |-> FALSE, store_value |-> EmptyMap,
     fields |-> <<[name |-> "value", repr |-> TRUE, default |-> PyInt(0)]>>],
    [name |-> "SetObjectSelectionString",
     kind |-> "literal", lit |-> <<"S", "y", "G", "P", "D", "C", "O">>,
     alts |-> <<>>, named |-> <<>>,
     parse |-> "SimpleCommand", mro |-> <<"SetObjectSelectionString", "SimpleCommand", "BaseCommand">>, default_type |-> "int", type_map |-> EmptyMap,
     store_path |-> NoPath, load_path |-> NoPath, has_store_value |-> FALSE, store_value |-> EmptyMap,
     fields |-> <<[name |-> "value", repr |-> FALSE, default |-> None]>>],
    [name |-> "SetTargetAzimuth",
     kind |-> "regex", lit |-> <<>>,
     alts |-> <<<<Lit("S"), Lit("z"), Item({" "}, Down(1, 0), "", FALSE), Item(Digit, <<3>>, "degrees", FALSE), Lit("*"), Item(Digit, <<2>>, "minutes", FALSE)>>>>, named |-> <<"degrees", "minutes">>,
     parse |-> "SimpleNumericCommand", mro |-> <<"SetTargetAzimuth", "SimpleNumericCommand", "SimpleCommand", "BaseCommand">>, default_type |-> "int", type_map |-> EmptyMap,
     store_path |-> <<[lit |-> "mount.target.azimuth", fld |-> ""]>>, load_path |-> NoPath, has_store_value |-> FALSE, store_value |-> EmptyMap,
     fields |-> <<[name |-> "value", repr |-> FALSE, default |-> None], [name |-> "degrees", repr |-> TRUE, default |-> None], [name |-> "minutes", repr |-> TRUE, default |-> None]>>],
    [name |-> "IncrementManualRate",
     kind |-> "regex", lit |-> <<>>,
     alts |-> <<<<Item({"S"}, <<1>>, "1", FALSE), Item({"T"}, <<1>>, "1", FALSE), Item({"+"}, <<1>>, "1", FALSE)>>, <<Item({"T"}, <<1>>, "2", FALSE), Item({"+"}, <<1>>, "2", FALSE)>>>>, named |-> <<>>,
     parse |-> "SimpleCommand", mro |-> <<"IncrementManualRate", "SimpleCommand", "BaseCommand">>, default_type |-> "int", type_map |-> EmptyMap,
     store_path |-> NoPath, load_path |-> NoPath, has_store_value |-> FALSE, store_value |-> EmptyMap,
     fields |-> <<[name |-> "value", repr |-> FALSE, default |-> None]>>],
    [name |-> "DecrementManualRate",
     kind |-> "regex", lit |-> <<>>,
     alts |-> <<<<Item({"S"}, <<1>>, "1", FALSE), Item({"T"}, <<1>>, "1", FALSE), Item({"-"}, <<1>>, "1", FALSE)>>, <<Item({"T"}, <<1>>, "2", FALSE), Item({"-"}, <<1>>, "2", FALSE)>>>>, named |-> <<>>,
     parse |-> "SimpleCommand", mro |-> <<"DecrementManualRate", "SimpleCommand", "BaseCommand">>, default_type |-> "int", type_map |-> EmptyMap,
     store_path |-> NoPath, load_path |-> NoPath, has_store_value |-> FALSE, store_value |-> EmptyMap,
     fields |-> <<[name |-> "value", repr |-> FALSE, default |-> None]>>],
    [name |-> "SetLunarTracking",
     kind |-> "literal", lit |-> <<"T", "L">>,
     alts |-> <<>>, named |-> <<>>,
     parse |-> "SimpleCommand", mro |-> <<"SetLunarTracking", "SimpleCommand", "BaseCommand">>, default_type |-> "int", type_map |-> EmptyMap,
     store_path |-> <<[lit |-> "mount.tracking.rate_name", fld |-> ""]>>, load_path |-> NoPath, has_store_value |-> TRUE, store_value |-> ("value" :> PyStr("LUNAR")),
     fields |-> <<[name |-> "value", repr |-> FALSE, default |-> None]>>],
    [name |-> "SelectCustomTrackingRate",
     kind |-> "literal", lit |-> <<"T", "M">>,
     alts |-> <<>>, named |-> <<>>,
     parse |-> "SimpleCommand", mro |-> <<"SelectCustomTrackingRate", "SimpleCommand", "BaseCommand">>, default_type |-> "int", type_map |-> EmptyMap,
     store_path |-> <<[lit |-> "mount.tracking.rate_name", fld |-> ""]>>, load_path |-> NoPath, has_store_value |-> TRUE, store_value |-> ("value" :> PyStr("CUSTOM")),
     fields |-> <<[name |-> "value", repr |-> FALSE, default |-> None]>>],
    [name |-> "SelectSiderealTrackingRate",
     kind |-> "literal", lit |-> <<"T", "Q">>,
     alts |-> <<>>, named |-> <<>>,
     parse |-> "SimpleCommand", mro |-> <<"SelectSiderealTrackingRate", "SimpleCommand", "BaseCommand">>, default_type |-> "int", type_map |-> EmptyMap,
     store_path |-> <<[lit |-> "mount.tracking.rate_name", fld |-> ""]>>, load_path |-> NoPath, has_store_value |-> TRUE, store_value |-> ("value" :> PyStr("SIDEREAL")),
     fields |-> <<[name |-> "value", repr |-> FALSE, default |-> None]>>],
    [name |-> "SelectSolarTrackingRate",
     kind |-> "literal", lit |-> <<"T", "S">>,
     alts |-> <<>>, named |-> <<>>,
     parse |-> "SimpleCommand", mro |-> <<"SelectSolarTrackingRate", "SimpleCommand", "BaseCommand">>, default_type |-> "int", type_map |-> EmptyMap,
     store_path |-> <<[lit |-> "mount.tracking.rate_name", fld |-> ""]>>, load_path |-> NoPath, has_store_value |-> TRUE, store_value |-> ("value" :> PyStr("SOLAR")),
     fields |-> <<[name |-> "value", repr |-> FALSE, default |-> None]>>]
>>

COMMAND_DEFAULT_MAP == <<
    [command |-> "GetBrowseBrighterMagnitudeLimit", data |-> ("value" :> PyInt(10))],
    [command |-> "GetBrowseFaintMagnitudeLimit", data |-> ("value" :> PyInt(0))],
    [command |-> "GetUTCOffsetTime", data |-> ("value" :> PyInt(0))],
    [command |-> "GetLowerLimit", data |-> ("value" :> PyInt(0))],
    [command |-> "GetHighLimit", data |-> ("value" :> PyInt(110))],
    [command |-> "GetAlignmentMenuEntry0", data |-> ("value" :> PyStr("Menu0"))],
    [command |-> "GetAlignmentMenuEntry1", data |-> ("value" :> PyStr("Menu1"))],
    [command |-> "GetAlignmentMenuEntry2", data |-> ("value" :> PyStr("Menu2"))],
    [command |-> "GetTrackingRate", data |-> ("value" :> PyFloat(600, 1))],
    [command |-> "SelectSiderealTrackingRate", data |-> ("value" :> PyStr("SIDEREAL"))],
    [command |-> "QueryFocuserBusyStatus", data |-> ("value" :> PyBool(FALSE))],
    [command |-> "GetSite1Name", data |-> ("value" :> PyStr("SI1"))],
    [command |-> "GetSite2Name", data |-> ("value" :> PyStr("SI2"))],
    [command |-> "GetSite3Name", data |-> ("value" :> PyStr("SI3"))],
    [command |-> "GetSite4Name", data |-> ("value" :> PyStr("SI4"))],
    [command |-> "SelectSite", data |-> ("value" :> PyInt(1))],
    [command |-> "GetClockFormat", data |-> ("value" :> PyBool(TRUE))],
    [command |-> "SetDSTEnabled", data |-> ("value" :> PyBool(FALSE))]
>>

COMMAND_RESPONSE_MAP ==
    (("GetDistanceToMeridian" :> "DMSResponse") @@
     ("GetAzimuth" :> "DMSResponse") @@
     ("GetAltitude" :> "DMSResponse") @@
     ("GetDeclination" :> "DMSResponse") @@
     ("GetSelectedObjectDeclination" :> "DMSResponse") @@
     ("GetSelectedTargetDeclination" :> "DMSResponse") @@
     ("GetSiderealTime" :> "HMSResponse") @@
     ("GetRightAscencion" :> "HMSResponse") @@
     ("GetSelectedTargetRightAscencion" :> "HMSResponse") @@
     ("GetSelectedObjectRightAscencion" :> "HMSResponse") @@
     ("SetLunarTracking" :> "EmptyResponse") @@
     ("SelectSiderealTrackingRate" :> "EmptyResponse") @@
     ("SelectCustomTrackingRate" :> "EmptyResponse")) @@
    (("SelectSolarTrackingRate" :> "EmptyResponse") @@
     ("DisableAzimuthPEC" :> "EmptyResponse") @@
     ("DisableRightAscencionPEC" :> "EmptyResponse") @@
     ("DecrementManualRate" :> "EmptyResponse") @@
     ("EnableAltitudePEC" :> "EmptyResponse") @@
     ("EnableAzimuthPEC" :> "EmptyResponse") @@
     ("EnableRightAscencionPEC" :> "EmptyResponse") @@
     ("DisableAltitudePEC" :> "EmptyResponse") @@
     ("EnableFlexureCorrection" :> "EmptyResponse") @@
     ("DisableFlexureCorrection" :> "EmptyResponse") @@
     ("SetDSTEnabled" :> "EmptyResponse") @@
     ("StepQualityLimit" :> "EmptyResponse") @@
     ("IncrementManualRate" :> "EmptyResponse")) @@
    (("SetRightAscentionSlewRate" :> "EmptyResponse") @@
     ("SetDeclinationSlewRate" :> "EmptyResponse") @@
     ("SetAltitudeSlewRate" :> "EmptyResponse") @@
     ("SetAzimuthSlewRate" :> "EmptyResponse") @@
     ("SetGuideRate" :> "EmptyResponse") @@
     ("SetSlewRateToCentering" :> "EmptyResponse") @@
     ("SetSlewRateToFinding" :> "EmptyResponse") @@
     ("SetSlewRateToGuiding" :> "EmptyResponse") @@
     ("SetSlewRateToMax" :> "EmptyResponse") @@
     ("HaltAll" :> "EmptyResponse") @@
     ("HaltEastward" :> "EmptyResponse") @@
     ("HaltNorthwawrd" :> "EmptyResponse") @@
     ("HaltWestward" :> "EmptyResponse")) @@
    (("HaltSouthward" :> "EmptyResponse") @@
     ("GuideEast" :> "EmptyResponse") @@
     ("GuideNorth" :> "EmptyResponse") @@
     ("GuideWest" :> "EmptyResponse") @@
     ("GuideSouth" :> "EmptyResponse") @@
     ("MoveEast" :> "EmptyResponse") @@
     ("MoveNorth" :> "EmptyResponse") @@
     ("MoveWest" :> "EmptyResponse") @@
     ("MoveSouth" :> "EmptyResponse") @@
     ("ToggleTimeFormat" :> "EmptyResponse") @@
     ("Initialize" :> "EmptyResponse") @@
     ("PrecisionPositionToggle" :> "EmptyResponse") @@
     ("CalibrateHomePosition" :> "EmptyResponse")) @@
    (("SeekHomePosition" :> "EmptyResponse") @@
     ("Sleep" :> "EmptyResponse") @@
     ("Park" :> "EmptyResponse") @@
     ("SetParkPosition" :> "EmptyResponse") @@
     ("WakeUp" :> "EmptyResponse") @@
     ("SetReticleFlashRate" :> "EmptyResponse") @@
     ("SetReticleFlashDutyCycle" :> "EmptyResponse") @@
     ("SyncSelenographic" :> "EmptyResponse") @@
     ("SetAzimuthAntiBacklash" :> "EmptyResponse") @@
     ("SetRightAscentionAntiBacklash" :> "EmptyResponse") @@
     ("IncreaseReticleBrightness" :> "EmptyResponse") @@
     ("DecreaseReticleBrightness" :> "EmptyResponse") @@
     ("EOT" :> "EmptyResponse")) @@
    (("LandAlignment" :> "EmptyResponse") @@
     ("PolarAlignment" :> "EmptyResponse") @@
     ("AltAzAlignment" :> "EmptyResponse") @@
     ("SetAltitudeAntiBacklash" :> "EmptyResponse") @@
     ("SetDeclinationAntiBacklash" :> "EmptyResponse") @@
     ("SetLowestElevation" :> "BooleanResponse") @@
     ("SetBacklashValues" :> "BooleanResponse") @@
     ("SetHomeData" :> "BooleanResponse") @@
     ("SetSensorOffsets" :> "BooleanResponse") @@
     ("SetSlewRate" :> "BooleanResponse") @@
     ("SetSite1Name" :> "BooleanResponse") @@
     ("SetSite2Name" :> "BooleanResponse") @@
     ("SetSite3Name" :> "BooleanResponse")) @@
    (("SetSite4Name" :> "BooleanResponse") @@
     ("SetObjectSelectionString" :> "BooleanResponse") @@
     ("SetLocalTime" :> "BooleanResponse") @@
     ("SetLocalSiderealTime" :> "BooleanResponse") @@
     ("BypassDSTEntry" :> "BooleanResponse") @@
     ("SetUTCOffset" :> "BooleanResponse") @@
     ("SetMaximumElevation" :> "BooleanResponse") @@
     ("SetSmallestObjectSize" :> "BooleanResponse") @@
     ("SetLargestObjectSize" :> "BooleanResponse") @@
     ("SetFaintMagnitude" :> "BooleanResponse") @@
     ("SetFieldDiameter" :> "BooleanResponse") @@
     ("SetSiteLongitude" :> "BooleanResponse") @@
     ("SetSiteLatitude" :> "BooleanResponse")) @@
    (("SetTargetSelenographicLatitude" :> "BooleanResponse") @@
     ("SetTargetSelenographicLongitude" :> "BooleanResponse") @@
     ("SetTargetAltitude" :> "BooleanResponse") @@
     ("SetTargetDeclination" :> "BooleanResponse") @@
     ("SetTargetRightAscencion" :> "BooleanResponse") @@
     ("SetTargetAzimuth" :> "BooleanResponse") @@
     ("AutomaticAlignment" :> "BooleanResponse") @@
     ("GetDailySavingsTimeSettings" :> "BooleanResponse") @@
     ("SetTrackingRate" :> "SetTrackingRate") @@
     ("GetTrackingRate" :> "GetTrackingRate") @@
     ("GetHomeData" :> "GetHomeData") @@
     ("GetBacklashValues" :> "GetHomeData") @@
     ("SetHandboxDate" :> "SetHandboxDate")) @@
    (("SlewToTargetAltAz" :> "SlewToTargetAltAz") @@
     ("ACK" :> "ACK") @@
     ("SyncDatabase" :> "SyncDatabase") @@
     ("DistanceBars" :> "DistanceBars") @@
     ("GetAlignmentMenuEntry0" :> "GetAlignmentMenuEntry") @@
     ("GetAlignmentMenuEntry1" :> "GetAlignmentMenuEntry") @@
     ("GetAlignmentMenuEntry2" :> "GetAlignmentMenuEntry") @@
     ("GetSite1Name" :> "GetSiteName") @@
     ("GetSite2Name" :> "GetSiteName") @@
     ("GetSite3Name" :> "GetSiteName") @@
     ("GetSite4Name" :> "GetSiteName") @@
     ("GetFirmwareTime" :> "GetLocalTime") @@
     ("GetLocalTime12H" :> "GetLocalTime")) @@
    (("GetLocalTime24H" :> "GetLocalTime") @@
     ("GetFirmwareDate" :> "GetFirmwareDate") @@
     ("GetFirmwareNumber" :> "GetFirmwareNumber") @@
     ("GetUTCOffsetTime" :> "SignedFloatResponse") @@
     ("GetBrowseBrighterMagnitudeLimit" :> "SignedFloatResponse") @@
     ("GetBrowseFaintMagnitudeLimit" :> "SignedFloatResponse") @@
     ("GetDate" :> "DateResponse") @@
     ("GetClockFormat" :> "GetClockFormat") @@
     ("GetSelenographicLatitude" :> "GetSelenographicCoordinate") @@
     ("GetSelenographicLongitude" :> "GetSelenographicCoordinate") @@
     ("GetFindFieldDiameter" :> "GetFindFieldDiameter") @@
     ("GetSiteLongitude" :> "LowPrecisionDMSResponse") @@
     ("GetSiteLatitude" :> "LowPrecisionDMSResponse")) @@
    (("GetDeepskySearchString" :> "GetDeepskySearchString") @@
     ("GetAlignmentStatus" :> "GetAlignmentStatus") @@
     ("GetProductName" :> "GetProductName") @@
     ("HighPrecisionToggle" :> "HighPrecisionToggle") @@
     ("SlewToTarget" :> "SlewToTarget") @@
     ("SlewToTargetObject" :> "SlewToTarget") @@
     ("SetBaudRate" :> "SetBaudRate") @@
     ("SetBrighterLimit" :> "SetBrighterLimit") @@
     ("GetHighLimit" :> "GetHighLimit") @@
     ("GetLowerLimit" :> "GetHighLimit") @@
     ("GetLargerSizeLimit" :> "GetLargerSizeLimit") @@
     ("GetSmallerSizeLimit" :> "GetLargerSizeLimit") @@
     ("GetMinimumQualityForFind" :> "GetMinimumQualityForFind")) @@
    (("GetSensorOffsets" :> "GetSensorOffsets") @@
     ("QueryHomeStatus" :> "QueryHomeStatus"))

ALL_RESPONSES ==
    (("DMSResponse" :> <<[name |-> "command", repr |-> TRUE, default |-> None], [name |-> "suffix", repr |-> FALSE, default |-> PyStr("#")], [name |-> "new_line", repr |-> FALSE, default |-> PyBool(FALSE)], [name |-> "value", repr |-> FALSE, default |-> None], [name |-> "high_precision", repr |-> TRUE, default |-> PyBool(TRUE)], [name |-> "degrees", repr |-> TRUE, default |-> PyInt(0)], [name |-> "degrees_separator", repr |-> FALSE, default |-> PyStr(":")], [name |-> "minutes", repr |-> TRUE, default |-> PyInt(0)], [name |-> "minutes_separator", repr |-> FALSE, default |-> PyStr(":")], [name |-> "seconds", repr |-> TRUE, default |-> PyInt(0)]>>) @@
     ("HMSResponse" :> <<[name |-> "command", repr |-> TRUE, default |-> None], [name |-> "suffix", repr |-> FALSE, default |-> PyStr("#")], [name |-> "new_line", repr |-> FALSE, default |-> PyBool(FALSE)], [name |-> "value", repr |-> FALSE, default |-> None], [name |-> "high_precision", repr |-> TRUE, default |-> PyBool(TRUE)], [name |-> "hours", repr |-> TRUE, default |-> PyInt(0)], [name |-> "hours_separator", repr |-> FALSE, default |-> PyStr(":")], [name |-> "minutes", repr |-> TRUE, default |-> PyInt(0)], [name |-> "minutes_separator", repr |-> FALSE, default |-> PyStr(":")], [name |-> "seconds", repr |-> TRUE, default |-> PyInt(0)]>>) @@
     ("EmptyResponse" :> <<[name |-> "value", repr |-> TRUE, default |-> PyStr("")], [name |-> "command", repr |-> TRUE, default |-> None], [name |-> "suffix", repr |-> FALSE, default |-> PyStr("#")], [name |-> "new_line", repr |-> FALSE, default |-> PyBool(FALSE)]>>) @@
     ("BooleanResponse" :> <<[name |-> "command", repr |-> TRUE, default |-> None], [name |-> "new_line", repr |-> FALSE, default |-> PyBool(FALSE)], [name |-> "value", repr |-> TRUE, default |-> PyBool(TRUE)], [name |-> "output_true", repr |-> TRUE, default |-> PyStr("1")], [name |-> "output_false", repr |-> TRUE, default |-> PyStr("0")], [name |-> "suffix", repr |-> FALSE, default |-> PyStr("")]>>) @@
     ("SetTrackingRate" :> <<[name |-> "command", repr |-> TRUE, default |-> None], [name |-> "new_line", repr |-> FALSE, default |-> PyBool(FALSE)], [name |-> "value", repr |-> TRUE, default |-> PyBool(TRUE)], [name |-> "output_false", repr |-> TRUE, default |-> PyStr("0")], [name |-> "suffix", repr |-> FALSE, default |-> PyStr("")], [name |-> "output_true", repr |-> TRUE, default |-> PyStr("2")]>>) @@
     ("GetTrackingRate" :> <<[name |-> "command", repr |-> TRUE, default |-> None], [name |-> "suffix", repr |-> FALSE, default |-> PyStr("#")], [name |-> "new_line", repr |-> FALSE, default |-> PyBool(FALSE)], [name |-> "value", repr |-> TRUE, default |-> PyInt(60)]>>)) @@
    (("GetHomeData" :> <<[name |-> "command", repr |-> TRUE, default |-> None], [name |-> "suffix", repr |-> FALSE, default |-> PyStr("#")], [name |-> "new_line", repr |-> FALSE, default |-> PyBool(FALSE)], [name |-> "value", repr |-> FALSE, default |-> None], [name |-> "axis_1", repr |-> TRUE, default |-> PyInt(0)], [name |-> "axis_2", repr |-> TRUE, default |-> PyInt(0)]>>) @@
     ("SetHandboxDate" :> <<[name |-> "command", repr |-> TRUE, default |-> None], [name |-> "new_line", repr |-> FALSE, default |-> PyBool(FALSE)], [name |-> "value", repr |-> TRUE, default |-> PyBool(TRUE)], [name |-> "output_false", repr |-> TRUE, default |-> PyStr("0")], [name |-> "suffix", repr |-> FALSE, default |-> PyStr("")], [name |-> "output_true", repr |-> TRUE, default |-> PyStr("1Updating  Planetary Data#                       #")]>>) @@
     ("SlewToTargetAltAz" :> <<[name |-> "command", repr |-> TRUE, default |-> None], [name |-> "new_line", repr |-> FALSE, default |-> PyBool(FALSE)], [name |-> "value", repr |-> TRUE, default |-> PyBool(TRUE)], [name |-> "suffix", repr |-> FALSE, default |-> PyStr("")], [name |-> "output_true", repr |-> TRUE, default |-> PyStr("0")], [name |-> "output_false", repr |-> TRUE, default |-> PyStr("1")]>>) @@
     ("ACK" :> <<[name |-> "command", repr |-> TRUE, default |-> None], [name |-> "new_line", repr |-> FALSE, default |-> PyBool(FALSE)], [name |-> "suffix", repr |-> FALSE, default |-> PyStr("")], [name |-> "value", repr |-> TRUE, default |-> PyStr("A")]>>) @@
     ("SyncDatabase" :> <<[name |-> "command", repr |-> TRUE, default |-> None], [name |-> "suffix", repr |-> FALSE, default |-> PyStr("#")], [name |-> "new_line", repr |-> FALSE, default |-> PyBool(FALSE)], [name |-> "value", repr |-> TRUE, default |-> PyStr(" M31 EX GAL MAG 3.5 SZ178.0'")]>>) @@
     ("DistanceBars" :> <<[name |-> "command", repr |-> TRUE, default |-> None], [name |-> "new_line", repr |-> FALSE, default |-> PyBool(FALSE)], [name |-> "value", repr |-> TRUE, default |-> PyInt(0)], [name |-> "suffix", repr |-> TRUE, default |-> PyStr("")]>>)) @@
    (("GetAlignmentMenuEntry" :> <<[name |-> "command", repr |-> TRUE, default |-> None], [name |-> "suffix", repr |-> FALSE, default |-> PyStr("#")], [name |-> "new_line", repr |-> FALSE, default |-> PyBool(FALSE)], [name |-> "value", repr |-> TRUE, default |-> PyStr("The Menu Entry (legacy command)")]>>) @@
     ("GetSiteName" :> <<[name |-> "command", repr |-> TRUE, default |-> None], [name |-> "suffix", repr |-> FALSE, default |-> PyStr("#")], [name |-> "new_line", repr |-> FALSE, default |-> PyBool(FALSE)], [name |-> "value", repr |-> TRUE, default |-> PyStr("TheSiteName")]>>) @@
     ("GetLocalTime" :> <<[name |-> "command", repr |-> TRUE, default |-> None], [name |-> "suffix", repr |-> FALSE, default |-> PyStr("#")], [name |-> "new_line", repr |-> FALSE, default |-> PyBool(FALSE)], [name |-> "value", repr |-> FALSE, default |-> None], [name |-> "hours", repr |-> TRUE, default |-> PyInt(10)], [name |-> "minutes", repr |-> TRUE, default |-> PyInt(33)], [name |-> "seconds", repr |-> TRUE, default |-> PyInt(34)]>>) @@
     ("GetFirmwareDate" :> <<[name |-> "command", repr |-> TRUE, default |-> None], [name |-> "suffix", repr |-> FALSE, default |-> PyStr("#")], [name |-> "new_line", repr |-> FALSE, default |-> PyBool(FALSE)], [name |-> "value", repr |-> FALSE, default |-> None], [name |-> "year", repr |-> TRUE, default |-> PyInt(1999)], [name |-> "month", repr |-> TRUE, default |-> PyInt(12)], [name |-> "day", repr |-> TRUE, default |-> PyInt(31)]>>) @@
     ("GetFirmwareNumber" :> <<[name |-> "command", repr |-> TRUE, default |-> None], [name |-> "suffix", repr |-> FALSE, default |-> PyStr("#")], [name |-> "new_line", repr |-> FALSE, default |-> PyBool(FALSE)], [name |-> "value", repr |-> FALSE, default |-> None], [name |-> "major", repr |-> TRUE, default |-> PyInt(42)], [name |-> "minor", repr |-> TRUE, default |-> PyInt(0)]>>) @@
     ("SignedFloatResponse" :> <<[name |-> "command", repr |-> TRUE, default |-> None], [name |-> "suffix", repr |-> FALSE, default |-> PyStr("#")], [name |-> "new_line", repr |-> FALSE, default |-> PyBool(FALSE)], [name |-> "value", repr |-> TRUE, default |-> PyInt(0)]>>)) @@
    (("DateResponse" :> <<[name |-> "command", repr |-> TRUE, default |-> None], [name |-> "suffix", repr |-> FALSE, default |-> PyStr("#")], [name |-> "new_line", repr |-> FALSE, default |-> PyBool(FALSE)], [name |-> "value", repr |-> FALSE, default |-> None], [name |-> "year", repr |-> TRUE, default |-> PyInt(13)], [name |-> "month", repr |-> TRUE, default |-> PyInt(12)], [name |-> "day", repr |-> TRUE, default |-> PyInt(11)]>>) @@
     ("GetClockFormat" :> <<[name |-> "command", repr |-> TRUE, default |-> None], [name |-> "suffix", repr |-> FALSE, default |-> PyStr("#")], [name |-> "new_line", repr |-> FALSE, default |-> PyBool(FALSE)], [name |-> "value", repr |-> TRUE, default |-> PyBool(TRUE)]>>) @@
     ("GetSelenographicCoordinate" :> <<[name |-> "command", repr |-> TRUE, default |-> None], [name |-> "suffix", repr |-> FALSE, default |-> PyStr("#")], [name |-> "new_line", repr |-> FALSE, default |-> PyBool(FALSE)], [name |-> "value", repr |-> FALSE, default |-> None], [name |-> "degrees", repr |-> TRUE, default |-> PyInt(99)], [name |-> "minutes", repr |-> TRUE, default |-> PyInt(99)]>>) @@
     ("GetFindFieldDiameter" :> <<[name |-> "value", repr |-> TRUE, default |-> PyStr("")], [name |-> "command", repr |-> TRUE, default |-> None], [name |-> "suffix", repr |-> FALSE, default |-> PyStr("#")], [name |-> "new_line", repr |-> FALSE, default |-> PyBool(FALSE)]>>) @@
     ("LowPrecisionDMSResponse" :> <<[name |-> "command", repr |-> TRUE, default |-> None], [name |-> "suffix", repr |-> FALSE, default |-> PyStr("#")], [name |-> "new_line", repr |-> FALSE, default |-> PyBool(FALSE)], [name |-> "value", repr |-> FALSE, default |-> None], [name |-> "high_precision", repr |-> TRUE, default |-> PyBool(TRUE)], [name |-> "degrees", repr |-> TRUE, default |-> PyInt(0)], [name |-> "degrees_separator", repr |-> FALSE, default |-> PyStr(":")], [name |-> "minutes", repr |-> TRUE, default |-> PyInt(0)], [name |-> "minutes_separator", repr |-> FALSE, default |-> PyStr(":")], [name |-> "seconds", repr |-> TRUE, default |-> PyInt(0)]>>) @@
     ("GetDeepskySearchString" :> <<[name |-> "command", repr |-> TRUE, default |-> None], [name |-> "suffix", repr |-> FALSE, default |-> PyStr("#")], [name |-> "new_line", repr |-> FALSE, default |-> PyBool(FALSE)], [name |-> "value", repr |-> TRUE, default |-> PyStr("gpdco")]>>)) @@
    (("GetAlignmentStatus" :> <<[name |-> "command", repr |-> TRUE, default |-> None], [name |-> "suffix", repr |-> FALSE, default |-> PyStr("#")], [name |-> "new_line", repr |-> FALSE, default |-> PyBool(FALSE)], [name |-> "value", repr |-> FALSE, default |-> None], [name |-> "mount", repr |-> TRUE, default |-> PyStr("P")], [name |-> "is_tracking", repr |-> TRUE, default |-> PyBool(FALSE)], [name |-> "alignment", repr |-> TRUE, default |-> PyInt(0)]>>) @@
     ("GetProductName" :> <<[name |-> "command", repr |-> TRUE, default |-> None], [name |-> "suffix", repr |-> FALSE, default |-> PyStr("#")], [name |-> "new_line", repr |-> FALSE, default |-> PyBool(FALSE)], [name |-> "value", repr |-> TRUE, default |-> PyStr("python-lx200 implementation")]>>) @@
     ("HighPrecisionToggle" :> <<[name |-> "command", repr |-> TRUE, default |-> None], [name |-> "new_line", repr |-> FALSE, default |-> PyBool(FALSE)], [name |-> "value", repr |-> TRUE, default |-> PyBool(TRUE)], [name |-> "output_true", repr |-> TRUE, default |-> PyStr("1")], [name |-> "output_false", repr |-> TRUE, default |-> PyStr("0")], [name |-> "suffix", repr |-> FALSE, default |-> PyStr("")]>>) @@
     ("SlewToTarget" :> <<[name |-> "command", repr |-> TRUE, default |-> None], [name |-> "new_line", repr |-> FALSE, default |-> PyBool(FALSE)], [name |-> "suffix", repr |-> FALSE, default |-> PyStr("")], [name |-> "value", repr |-> TRUE, default |-> PyStr("0")]>>) @@
     ("SetBaudRate" :> <<[name |-> "value", repr |-> TRUE, default |-> PyStr("")], [name |-> "command", repr |-> TRUE, default |-> None], [name |-> "suffix", repr |-> FALSE, default |-> PyStr("#")], [name |-> "new_line", repr |-> FALSE, default |-> PyBool(FALSE)]>>) @@
     ("SetBrighterLimit" :> <<[name |-> "command", repr |-> TRUE, default |-> None], [name |-> "new_line", repr |-> FALSE, default |-> PyBool(FALSE)], [name |-> "suffix", repr |-> FALSE, default |-> PyStr("")], [name |-> "value", repr |-> TRUE, default |-> PyBool(TRUE)], [name |-> "output_true", repr |-> TRUE, default |-> PyStr("0")], [name |-> "output_false", repr |-> TRUE, default |-> PyStr("1")]>>)) @@
    (("GetHighLimit" :> <<[name |-> "command", repr |-> TRUE, default |-> None], [name |-> "suffix", repr |-> FALSE, default |-> PyStr("#")], [name |-> "new_line", repr |-> FALSE, default |-> PyBool(FALSE)], [name |-> "value", repr |-> TRUE, default |-> PyInt(0)]>>) @@
     ("GetLargerSizeLimit" :> <<[name |-> "command", repr |-> TRUE, default |-> None], [name |-> "suffix", repr |-> FALSE, default |-> PyStr("#")], [name |-> "new_line", repr |-> FALSE, default |-> PyBool(FALSE)], [name |-> "value", repr |-> TRUE, default |-> PyInt(123)]>>) @@
     ("GetMinimumQualityForFind" :> <<[name |-> "command", repr |-> TRUE, default |-> None], [name |-> "suffix", repr |-> FALSE, default |-> PyStr("#")], [name |-> "new_line", repr |-> FALSE, default |-> PyBool(FALSE)], [name |-> "value", repr |-> TRUE, default |-> PyStr("GD")]>>) @@
     ("GetSensorOffsets" :> <<[name |-> "command", repr |-> TRUE, default |-> None], [name |-> "suffix", repr |-> FALSE, default |-> PyStr("#")], [name |-> "new_line", repr |-> FALSE, default |-> PyBool(FALSE)], [name |-> "value", repr |-> FALSE, default |-> None], [name |-> "az_error", repr |-> TRUE, default |-> PyInt(0)], [name |-> "el_error", repr |-> TRUE, default |-> PyInt(0)], [name |-> "home_offset", repr |-> TRUE, default |-> PyInt(0)]>>) @@
     ("QueryHomeStatus" :> <<[name |-> "command", repr |-> TRUE, default |-> None], [name |-> "suffix", repr |-> FALSE, default |-> PyStr("#")], [name |-> "new_line", repr |-> FALSE, default |-> PyBool(FALSE)], [name |-> "value", repr |-> TRUE, default |-> PyInt(1)]>>))
(* ----- the methods of the response classes, by method resolution order ----- *)

\* for every class of ALL_RESPONSES, the classes whose __str__ and format_value it runs
RESPONSE_METHODS ==
    (("DMSResponse" :> [str |-> "BaseResponse", format_value |-> "DMSResponse"]) @@
     ("HMSResponse" :> [str |-> "BaseResponse", format_value |-> "HMSResponse"]) @@
     ("EmptyResponse" :> [str |-> "EmptyResponse", format_value |-> "BaseResponse"]) @@
     ("BooleanResponse" :> [str |-> "BaseResponse", format_value |-> "BooleanResponse"]) @@
     ("SetTrackingRate" :> [str |-> "BaseResponse", format_value |-> "BooleanResponse"]) @@
     ("GetTrackingRate" :> [str |-> "BaseResponse", format_value |-> "GetTrackingRate"])) @@
    (("GetHomeData" :> [str |-> "BaseResponse", format_value |-> "GetHomeData"]) @@
     ("SetHandboxDate" :> [str |-> "BaseResponse", format_value |-> "BooleanResponse"]) @@
     ("SlewToTargetAltAz" :> [str |-> "BaseResponse", format_value |-> "BooleanResponse"]) @@
     ("ACK" :> [str |-> "BaseResponse", format_value |-> "BaseResponse"]) @@
     ("SyncDatabase" :> [str |-> "BaseResponse", format_value |-> "BaseResponse"]) @@
     ("DistanceBars" :> [str |-> "BaseResponse", format_value |-> "DistanceBars"])) @@
    (("GetAlignmentMenuEntry" :> [str |-> "BaseResponse", format_value |-> "BaseResponse"]) @@
     ("GetSiteName" :> [str |-> "BaseResponse", format_value |-> "BaseResponse"]) @@
     ("GetLocalTime" :> [str |-> "BaseResponse", format_value |-> "GetLocalTime"]) @@
     ("GetFirmwareDate" :> [str |-> "BaseResponse", format_value |-> "GetFirmwareDate"]) @@
     ("GetFirmwareNumber" :> [str |-> "BaseResponse", format_value |-> "GetFirmwareNumber"]) @@
     ("SignedFloatResponse" :> [str |-> "BaseResponse", format_value |-> "SignedFloatResponse"])) @@
    (("DateResponse" :> [str |-> "BaseResponse", format_value |-> "DateResponse"]) @@
     ("GetClockFormat" :> [str |-> "BaseResponse", format_value |-> "GetClockFormat"]) @@
     ("GetSelenographicCoordinate" :> [str |-> "BaseResponse", format_value |-> "GetSelenographicCoordinate"]) @@
     ("GetFindFieldDiameter" :> [str |-> "BaseResponse", format_value |-> "BaseResponse"]) @@
     ("LowPrecisionDMSResponse" :> [str |-> "BaseResponse", format_value |-> "DMSResponse"]) @@
     ("GetDeepskySearchString" :> [str |-> "BaseResponse", format_value |-> "BaseResponse"])) @@
    (("GetAlignmentStatus" :> [str |-> "BaseResponse", format_value |-> "GetAlignmentStatus"]) @@
     ("GetProductName" :> [str |-> "BaseResponse", format_value |-> "BaseResponse"]) @@
     ("HighPrecisionToggle" :> [str |-> "BaseResponse", format_value |-> "BooleanResponse"]) @@
     ("SlewToTarget" :> [str |-> "BaseResponse", format_value |-> "BaseResponse"]) @@
     ("SetBaudRate" :> [str |-> "BaseResponse", format_value |-> "SetBaudRate"]) @@
     ("SetBrighterLimit" :> [str |-> "BaseResponse", format_value |-> "BooleanResponse"])) @@
    (("GetHighLimit" :> [str |-> "BaseResponse", format_value |-> "GetHighLimit"]) @@
     ("GetLargerSizeLimit" :> [str |-> "BaseResponse", format_value |-> "BaseResponse"]) @@
     ("GetMinimumQualityForFind" :> [str |-> "BaseResponse", format_value |-> "BaseResponse"]) @@
     ("GetSensorOffsets" :> [str |-> "BaseResponse", format_value |-> "GetSensorOffsets"]) @@
     ("QueryHomeStatus" :> [str |-> "BaseResponse", format_value |-> "BaseResponse"]))


(* ------------------------ pattern matching ----------------------------- *)

NoMatch == <<-1>>

RECURSIVE MatchItems(_, _, _, _)
RECURSIVE TryCounts(_, _, _, _, _)
\* re's backtracking search for a full match of items[i..] on data[pos+1..]:
\* the repeat count of every item, in the engine's order of preference; a count the
\* data does not admit is passed over for the next one it admits
MatchItems(items, i, data, pos) ==
    IF i > Len(items)
    THEN IF pos = Len(data) THEN <<>> ELSE NoMatch
    ELSE TryCounts(items, i, data, pos, 1)

TryCounts(items, i, data, pos, j) ==
    IF j > Len(items[i].counts) THEN NoMatch
    ELSE IF /\ pos + items[i].counts[j] <= Len(data)
            /\ \A p \in (pos + 1)..(pos + items[i].counts[j]) : data[p] \in items[i].cls
    THEN LET rest == MatchItems(items, i + 1, data, pos + items[i].counts[j]) IN
         IF rest # NoMatch THEN <<items[i].counts[j]>> \o rest
         ELSE TryCounts(items, i, data, pos, j + 1)
    ELSE LET later == {n \in (j + 1)..Len(items[i].counts) :
                          /\ pos + items[i].counts[n] <= Len(data)
                          /\ \A p \in (pos + 1)..(pos + items[i].counts[n]) :
                                 data[p] \in items[i].cls} IN
         IF later = {} THEN NoMatch
         ELSE TryCounts(items, i, data, pos, CHOOSE n \in later : \A m \in later : n <= m)

RECURSIVE MatchAlts(_, _, _)
\* pattern.fullmatch(data): the first alternative that matches all of data,
\* as [alt, counts], or None ([alt |-> 0])
MatchAlts(alts, a, data) ==
    IF a > Len(alts) THEN [alt |-> 0, counts |-> <<>>]
    ELSE LET m == MatchItems(alts[a], 1, data, 0) IN
         IF m # NoMatch THEN [alt |-> a, counts |-> m] ELSE MatchAlts(alts, a + 1, data)

fullmatch(alts, data) == MatchAlts(alts, 1, data)

RECURSIVE GroupSpan(_, _, _, _, _, _)
\* the text of group g in match m: the characters consumed by its items
GroupSpan(items, counts, data, g, i, pos) ==
    IF i > Len(items) THEN <<>>
    ELSE (IF items[i].grp = g THEN SubSeq(data, pos + 1, pos + counts[i]) ELSE <<>>)
         \o GroupSpan(items, counts, data, g, i + 1, pos + counts[i])

\* matches.group(g): [some |-> FALSE] stands for None (the group took no part)
group(alts, m, data, g) ==
    LET items == alts[m.alt]
        mine == {i \in 1..Len(items) : items[i].grp = g}
    IN  IF mine = {} \/ \E i \in mine : items[i].opt /\ m.counts[i] = 0
        THEN [some |-> FALSE, text |-> <<>>]
        ELSE [some |-> TRUE, text |-> GroupSpan(items, m.counts, data, g, 1, 0)]

(* --------------------------- converters -------------------------------- *)

RECURSIVE LStrip(_)
LStrip(s) == IF s # <<>> /\ Head(s) \in Space THEN LStrip(Tail(s)) ELSE s

RECURSIVE RStrip(_)
RStrip(s) == IF s # <<>> /\ s[Len(s)] \in Space THEN RStrip(SubSeq(s, 1, Len(s) - 1)) ELSE s

RECURSIVE DigitsVal(_)
DigitsVal(s) == IF s = <<>> THEN 0 ELSE 10 * DigitsVal(SubSeq(s, 1, Len(s) - 1)) + DigitVal(s[Len(s)])

RECURSIVE Join(_)
\* ''.join(chars)
Join(s) == IF s = <<>> THEN "" ELSE Head(s) \o Join(Tail(s))

Failed(exc) == [exc |-> exc, val |-> None]

Okay(v) == [exc |-> "", val |-> v]

\* int(text) without the tolerance for surrounding whitespace
IntConvStrict(text) ==
    LET signed == text # <<>> /\ Head(text) \in {"+", "-"}
        digits == IF signed THEN Tail(text) ELSE text
    IN  IF digits = <<>> \/ \E p \in 1..Len(digits) : digits[p] \notin Digit
        THEN Failed("ValueError")
        ELSE Okay(PyInt(IF signed /\ Head(text) = "-" THEN 0 - DigitsVal(digits) ELSE DigitsVal(digits)))

\* int(text): surrounding whitespace and one sign are accepted, then digits
IntConv(text) ==
    LET s == RStrip(LStrip(text))
        signed == s # <<>> /\ Head(s) \in {"+", "-"}
        digits == IF signed THEN Tail(s) ELSE s
    IN  IF digits = <<>> \/ \E p \in 1..Len(digits) : digits[p] \notin Digit
        THEN Failed("ValueError")
        ELSE Okay(PyInt(IF signed /\ Head(s) = "-" THEN 0 - DigitsVal(digits) ELSE DigitsVal(digits)))

\* float(text), for decimal literals without exponent
FloatConv(text) ==
    LET s == RStrip(LStrip(text))
        signed == s # <<>> /\ Head(s) \in {"+", "-"}
        body == IF signed THEN Tail(s) ELSE s
        dots == {p \in 1..Len(body) : body[p] = "."}
        dot == IF dots = {} THEN Len(body) + 1 ELSE CHOOSE p \in dots : TRUE
        whole == SubSeq(body, 1, dot - 1)
        frac == SubSeq(body, dot + 1, Len(body))
        mant == DigitsVal(whole \o frac)
    IN  IF Cardinality(dots) > 1 \/ whole \o frac = <<>>
           \/ \E p \in 1..Len(body) : body[p] \notin Digit \cup {"."}
        THEN Failed("ValueError")
        ELSE Okay(PyFloat(IF signed /\ Head(s) = "-" THEN 0 - mant ELSE mant, Len(frac)))

\* converter(text) for the converters the catalog uses
Convert(type, text) ==
    CASE type = "int" -> IntConv(text)
      [] type = "float" -> FloatConv(text)
      [] type = "str" -> Okay(PyStr(Join(text)))

\* a field left as None when its group took no part in the match
ConvertNothing_none(type) == None

\* converter(): the converter's zero value
ConvertNothing(type) ==
    CASE type = "int" -> PyInt(0)
      [] type = "float" -> PyFloat(0, 0)
      [] type = "str" -> PyStr("")

(* ----------------------------- decoder --------------------------------- *)

Range(s) == {s[i] : i \in 1..Len(s)}

\* the least element of a set of positions
Min(S) == CHOOSE x \in S : \A y \in S : x <= y

\* the class UnknownCommand, which is not registered in the catalog
UnknownCommand ==
    [name |-> "UnknownCommand", kind |-> "any", lit |-> <<>>, alts |-> <<>>, named |-> <<>>,
     parse |-> "", mro |-> <<"UnknownCommand", "BaseCommand">>, default_type |-> "int",
     type_map |-> EmptyMap, store_path |-> NoPath, load_path |-> NoPath,
     has_store_value |-> FALSE, store_value |-> EmptyMap,
     fields |-> <<[name |-> "value", repr |-> TRUE, default |-> None]>>]

\* the class of a command instance
ClassEntry(name) ==
    IF name = "UnknownCommand" THEN UnknownCommand
    ELSE ALL_COMMANDS[CHOOSE i \in 1..Len(ALL_COMMANDS) : ALL_COMMANDS[i].name = name]

\* cls() : a fresh instance with every attrs field at its default
NewInstance(entry) ==
    [cls |-> entry.name,
     attrs |-> [k \in {entry.fields[i].name : i \in 1..Len(entry.fields)} |->
                  (CHOOSE f \in {entry.fields[i] : i \in 1..Len(entry.fields)} : f.name = k).default]]

\* can_be accepting a literal pattern as a prefix of data
can_be_prefix(entry, data) ==
    IF entry.kind = "regex"
    THEN LET m == fullmatch(entry.alts, data) IN [ok |-> m.alt # 0, m |-> m]
    ELSE [ok |-> Len(data) >= Len(entry.lit) /\ SubSeq(data, 1, Len(entry.lit)) = entry.lit,
          m |-> [alt |-> 0, counts |-> <<>>]]

\* SimpleCommand.can_be: a match object, True, False or None;
\* ok says whether the result is truthy
can_be(entry, data) ==
    IF entry.kind = "regex"
    THEN LET m == fullmatch(entry.alts, data) IN [ok |-> m.alt # 0, m |-> m]
    ELSE [ok |-> data = entry.lit, m |-> [alt |-> 0, counts |-> <<>>]]

\* is_command with the membership test inverted
is_command_inverted(data, entry) == ~can_be(entry, data).ok

is_command(data, entry) == can_be(entry, data).ok

\* setattr(self, name, value)
SetAttr(cmd, name, value) ==
    [cmd EXCEPT !.attrs = (name :> value) @@ cmd.attrs]

RECURSIVE ParseGroups(_, _, _, _, _)
\* the loop of SimpleNumericCommand.parse over the named groups
ParseGroups(entry, m, data, cmd, i) ==
    IF i > Len(entry.named) THEN [exc |-> "", val |-> cmd]
    ELSE LET name == entry.named[i]
             converter == IF name \in DOMAIN entry.type_map THEN entry.type_map[name]
                          ELSE entry.default_type
             g == group(entry.alts, m, data, name)
             conv == IF g.some THEN Convert(converter, g.text) ELSE Okay(ConvertNothing(converter))
         IN  IF conv.exc # "" THEN [exc |-> conv.exc, val |-> cmd]
             ELSE ParseGroups(entry, m, data, SetAttr(cmd, name, conv.val), i + 1)

SimpleNumericCommand_parse(entry, match, data, cmd) ==
    IF entry.kind # "regex" THEN [exc |-> "AttributeError", val |-> cmd]
    ELSE IF entry.named = <<>>
    THEN LET g == group(entry.alts, match.m, data, "1")
             conv == IF g.some THEN Convert(entry.default_type, g.text) ELSE Failed("TypeError")
         IN  IF \A a \in 1..Len(entry.alts) : \A i \in 1..Len(entry.alts[a]) : entry.alts[a][i].grp = ""
             THEN [exc |-> "IndexError", val |-> cmd]
             ELSE IF conv.exc # "" THEN [exc |-> conv.exc, val |-> cmd]
             ELSE [exc |-> "", val |-> SetAttr(cmd, "value", conv.val)]
    ELSE ParseGroups(entry, match.m, data, cmd, 1)

Negated(x) ==
    CASE x.t = "int" -> PyInt(0 - x.v)
      [] x.t = "float" -> PyFloat(0 - x.v[1], x.v[2])
      [] x.t = "bool" -> PyInt(IF x.v THEN -1 ELSE 0)

Numeric(x) == x.t \in {"int", "float", "bool"}

\* the test self.degrees <= 0
IsNegative_or_zero(x) ==
    CASE x.t = "int" -> x.v <= 0
      [] x.t = "float" -> x.v[1] <= 0
      [] x.t = "bool" -> ~x.v

IsNegative(x) ==
    CASE x.t = "int" -> x.v < 0
      [] x.t = "float" -> x.v[1] < 0
      [] x.t = "bool" -> FALSE

\* lines 123-127: self.seconds = -1 * self.seconds, skipped when it raises
NegateSeconds(c) ==
    IF "seconds" \in DOMAIN c.attrs /\ Numeric(c.attrs["seconds"])
    THEN SetAttr(c, "seconds", Negated(c.attrs["seconds"]))
    ELSE c

\* lines 121-129 of SignedDMSCommand.parse, on the command super().parse left
NegateMinutesSeconds(c) ==
    IF ~Numeric(c.attrs["degrees"]) THEN [exc |-> "TypeError", val |-> c]
    ELSE IF IsNegative(c.attrs["degrees"])
    THEN IF ~Numeric(c.attrs["minutes"]) THEN [exc |-> "TypeError", val |-> c]
         ELSE [exc |-> "", val |-> NegateSeconds(SetAttr(c, "minutes", Negated(c.attrs["minutes"])))]
    ELSE [exc |-> "", val |-> c]

\* what SignedDMSCommand.parse does once super().parse has returned r
AfterSuperParse(r) == IF r.exc # "" THEN r ELSE NegateMinutesSeconds(r.val)

SignedDMSCommand_parse(entry, match, data, cmd) ==
    AfterSuperParse(SimpleNumericCommand_parse(entry, match, data, cmd))

\* instance.parse(matches, data), dispatched on the class that defines parse
parse_matches(entry, match, data, cmd) ==
    CASE entry.parse = "SimpleCommand" -> [exc |-> "", val |-> cmd]
      [] entry.parse = "SimpleNumericCommand" -> SimpleNumericCommand_parse(entry, match, data, cmd)
      [] entry.parse = "SignedDMSCommand" -> SignedDMSCommand_parse(entry, match, data, cmd)

\* SimpleCommand.from_data
from_data(entry, data) ==
    LET matches == can_be(entry, data) IN
    IF ~matches.ok THEN [exc |-> "ValueError", val |-> NewInstance(entry)]
    ELSE parse_matches(entry, matches, data, NewInstance(entry))

\* UnknownCommand.from_data keeping value None for an empty payload
UnknownCommand_from_data_or_none(data) ==
    [cls |-> "UnknownCommand", attrs |-> ("value" :> (IF data = <<>> THEN None ELSE PyStr(Join(data))))]

\* UnknownCommand.from_data
UnknownCommand_from_data(data) ==
    [cls |-> "UnknownCommand", attrs |-> ("value" :> PyStr(Join(data)))]

RECURSIVE LastCommand(_, _, _)
\* the loop of Parser.parse keeping the last entry that is_command accepts
LastCommand(data, lo, hi) ==
    IF lo > hi THEN 0
    ELSE IF lo = hi THEN (IF is_command(data, ALL_COMMANDS[lo]) THEN lo ELSE 0)
    ELSE LET mid == (lo + hi) \div 2
             last == LastCommand(data, mid + 1, hi)
         IN  IF last # 0 THEN last ELSE LastCommand(data, lo, mid)

\* the position of the first entry of ALL_COMMANDS[lo..hi], in catalog order,
\* that is_command accepts, 0 when the loop of Parser.parse finds none there
FirstCommand(data, lo, hi) ==
    LET accepted == {i \in lo..hi : is_command(data, ALL_COMMANDS[i])}
    IN  IF accepted = {} THEN 0 ELSE CHOOSE i \in accepted : \A j \in accepted : i <= j

\* Parser.parse
parse(data) ==
    LET i == FirstCommand(data, 1, Len(ALL_COMMANDS)) IN
    IF i # 0 THEN from_data(ALL_COMMANDS[i], data)
    ELSE [exc |-> "", val |-> UnknownCommand_from_data(data)]

(* ------------------------------ state ---------------------------------- *)

VARIABLES
    maxlen,       \* Parser.maxlen
    state,        \* Parser.state: "IDLE" or "PARSING"
    buffer,       \* Parser.buffer
    output,       \* Parser.output, leftmost element first; an element is a
                  \* decoded command with the serial number of its decoding
    data,         \* the argument of the running Parser.feed call
    pending,      \* the characters of data the loop of feed has yet to take
    failed,       \* the exception that left the last call, "" for none
    nemit,        \* history: how many commands were decoded so far
    popped,       \* history: the serial numbers taken by output.pop(), in order
    frame_open,   \* history: a ':' was taken in IDLE and no '#' came since
    frame_len,    \* history: characters fed since that ':', up to maxlen + 1
    frame_emit,   \* history: nemit when that ':' was taken
    frame_tail,   \* history: a ':', \x06 or \x04 came after the frame overflowed
    frame_closed, \* history: the last byte fed was the '#' that closed the frame
    last_byte,    \* history: the byte last passed to feed_one
    last_state,   \* history: Parser.state when that byte was passed
    store,        \* the Store: path -> field-map
    response,     \* the response last passed to Store.fill_response
    committed,    \* history: the command last passed to Store.commit_command
    ncommit,      \* history: how many commands were committed
    store_before, \* history: the store as it was before the last commit
    response_before, \* history: the response as it was passed to Store.fill_response
    parsers,      \* the Parser objects created so far, by identity
    protocols,    \* the LX200Protocol object of every connection
    running,      \* the connection whose callback the event loop is running, 0 for none
    transport,    \* the texts passed to transport.write, for every connection
    log           \* history: what the connections did, in order

parser_vars == <<maxlen, state, buffer, output>>

feed_vars == <<data, pending>>

frame_vars == <<frame_open, frame_len, frame_emit, frame_tail, frame_closed, last_byte, last_state>>

store_vars == <<store, response, committed, ncommit, store_before, response_before>>

server_vars == <<parsers, protocols, running, transport, log>>

vars == <<maxlen, state, buffer, output, data, pending, failed, nemit, popped,
          frame_open, frame_len, frame_emit, frame_tail, frame_closed, last_byte,
          last_state, store, response, committed, ncommit, store_before, response_before,
          parsers, protocols, running, transport, log>>

(* ------------------------------ parser --------------------------------- *)

ACK == ALL_COMMANDS[1]

EOT == ALL_COMMANDS[2]

\* deque.append
append_right(q, x) == q \o <<x>>

\* deque.appendleft
appendleft(q, x) == <<x>> \o q

\* the element at the left end of the deque, the one decoded last
pop_item_left(q) == q[1]

\* the element deque.pop() returns, and the deque it leaves
pop_item(q) == q[Len(q)]

pop_rest(q) == SubSeq(q, 1, Len(q) - 1)

\* output.appendleft(cmd), numbering the command
Emit(cmd) ==
    /\ output' = appendleft(output, [id |-> nemit + 1, cmd |-> cmd])
    /\ nemit' = nemit + 1

\* an exception leaves feed_one, and feed with it
Raise(exc) ==
    /\ failed' = exc
    /\ pending' = <<>>
    /\ UNCHANGED <<state, buffer, output, nemit>>

\* a reset that leaves the buffer as it is
reset_state_only ==
    /\ buffer' = buffer
    /\ state' = "IDLE"

\* Parser.__reset_input_state
reset_input_state ==
    /\ buffer' = <<>>
    /\ state' = "IDLE"

\* history of the frame the byte c belongs to
TrackFrame(c) ==
    /\ last_byte' = c
    /\ last_state' = state
    /\ frame_closed' = (frame_open /\ c = COMMAND_END)
    /\ IF ~frame_open
       THEN IF c = COMMAND_START /\ state = "IDLE"
            THEN /\ frame_open' = TRUE
                 /\ frame_len' = 0
                 /\ frame_emit' = nemit
                 /\ frame_tail' = FALSE
            ELSE UNCHANGED <<frame_open, frame_len, frame_emit, frame_tail>>
       ELSE IF c = COMMAND_END
            THEN /\ frame_open' = FALSE
                 /\ UNCHANGED <<frame_len, frame_emit, frame_tail>>
            ELSE /\ frame_len' = IF frame_len > maxlen THEN frame_len ELSE frame_len + 1
                 /\ frame_tail' = (frame_tail \/ (frame_len > maxlen /\ c \in {COMMAND_START, ACK_BYTE, EOT_BYTE}))
                 /\ UNCHANGED <<frame_open, frame_emit>>

\* any byte but '#' opens a frame
starts_frame_any(c) == c # COMMAND_END

\* line 41: the byte opens a frame
starts_frame(c) == c = COMMAND_START

\* a ':' closes the frame as well
ends_frame_or_start(c) == c \in {COMMAND_END, COMMAND_START}

\* line 46: the byte closes the frame
ends_frame(c) == c = COMMAND_END

\* the length test of line 50 off by one
fits_inclusive(buf, n) == Len(buf) <= n

\* line 50: the buffer can take one more character
fits(buf, n) == Len(buf) < n

\* lines 34 and 38: self.output.appendleft(r) for the result r of from_data,
\* which may have raised instead
EmitByte(r, rest) ==
    IF r.exc # "" THEN Raise(r.exc)
    ELSE Emit(r.val) /\ failed' = "" /\ pending' = rest /\ UNCHANGED <<state, buffer>>

\* lines 47-48 without the reset of the input state
EmitFrame_keeping(r, rest) ==
    IF r.exc # "" THEN Raise(r.exc)
    ELSE Emit(r.val) /\ failed' = "" /\ pending' = rest /\ UNCHANGED <<state, buffer>>

\* lines 47-48: self.output.appendleft(r) for the result r of self.parse, which
\* may have raised instead, and the reset of the input state
EmitFrame(r, rest) ==
    IF r.exc # "" THEN Raise(r.exc)
    ELSE Emit(r.val) /\ reset_input_state /\ failed' = "" /\ pending' = rest

\* Parser.feed_one(c); rest is what feed still has to take afterwards
feed_one(c, rest) ==
    /\ TrackFrame(c)
    /\ UNCHANGED maxlen
    /\ IF state = "IDLE"
       THEN IF is_command(<<c>>, ACK)
            THEN EmitByte(from_data(ACK, <<c>>), rest)
            ELSE IF is_command(<<c>>, EOT)
            THEN EmitByte(from_data(EOT, <<c>>), rest)
            ELSE IF starts_frame(c)
            THEN /\ state' = "PARSING"
                 /\ failed' = "" /\ pending' = rest
                 /\ UNCHANGED <<buffer, output, nemit>>
            ELSE /\ failed' = "" /\ pending' = rest
                 /\ UNCHANGED <<state, buffer, output, nemit>>
       ELSE IF ends_frame(c)
            THEN EmitFrame(parse(buffer), rest)
            ELSE IF fits(buffer, maxlen)
                 THEN /\ buffer' = Append(buffer, c)
                      /\ failed' = "" /\ pending' = rest
                      /\ UNCHANGED <<state, output, nemit>>
                 ELSE /\ reset_input_state
                      /\ failed' = "" /\ pending' = rest
                      /\ UNCHANGED <<output, nemit>>

(* --------------- the byte-level specification of the parser ------------ *)

\* the bytes fed one at a time: the frame delimiters, the two single-byte
\* commands and one payload character ("D" alone is the DistanceBars command)
Alphabet == {COMMAND_START, COMMAND_END, ACK_BYTE, EOT_BYTE, "D"}

NoCommand == [cls |-> "", attrs |-> EmptyMap]

NoResponse == [cls |-> "", command |-> NoCommand, attrs |-> EmptyMap]

\* no connection was ever made
IdleServer ==
    /\ parsers = <<>>
    /\ protocols = <<>>
    /\ running = 0
    /\ transport = <<>>
    /\ log = <<>>

InitParser(n) ==
    /\ maxlen = n
    /\ state = "IDLE"
    /\ buffer = <<>>
    /\ output = <<>>
    /\ failed = ""
    /\ nemit = 0
    /\ popped = <<>>
    /\ frame_open = FALSE
    /\ frame_len = 0
    /\ frame_emit = 0
    /\ frame_tail = FALSE
    /\ frame_closed = FALSE
    /\ last_byte = ""
    /\ last_state = "IDLE"
    /\ ncommit = 0

Init ==
    /\ InitParser(MaxLen)
    /\ data = <<>>
    /\ pending = <<>>
    /\ store = EmptyMap
    /\ store_before = EmptyMap
    /\ response = NoResponse
    /\ response_before = NoResponse
    /\ committed = NoCommand
    /\ IdleServer

\* a caller feeds one character
FeedOne(c) ==
    /\ failed = ""
    /\ nemit < MaxEmit
    /\ Len(output) < MaxQueue
    /\ feed_one(c, <<>>)
    /\ UNCHANGED <<data, popped>>
    /\ UNCHANGED store_vars
    /\ UNCHANGED server_vars

\* the caller takes a command: parser.output.pop()
Pop ==
    /\ output # <<>>
    /\ pending = <<>>
    /\ popped' = Append(popped, pop_item(output).id)
    /\ output' = pop_rest(output)
    /\ UNCHANGED <<maxlen, state, buffer, data, pending, failed, nemit>>
    /\ UNCHANGED store_vars
    /\ UNCHANGED server_vars
    /\ UNCHANGED frame_vars

Next ==
    \/ \E c \in Alphabet : FeedOne(c)
    \/ Pop

Spec == Init /\ [][Next]_vars

(* ------------- the frame-level specification of the decoder ----------- *)

\* payloads framed and fed by SpecFrames besides the literal patterns: for every
\* regular expression of the catalog, texts that take each of its elements at
\* its shortest and longest, near misses, and frames around the length limit
SamplePayloads == {
    <<"$", "B", "A", " ", "1", "1">>, <<"$", "B", "A", "1", "1">>, <<"$", "B", "A", " ", "1">>,
    <<"$", "B", "A", " ", "0", "0">>, <<"$", "B", "A", " ", "0">>, <<"$", "B", "A", "1">>,
    <<"$", "B", "A", "0", "0">>, <<"$", "B", "A", "0">>, <<"$", "B", "Z", " ", "1", "1">>,
    <<"$", "B", "Z", "1", "1">>, <<"$", "B", "Z", " ", "1">>, <<"$", "B", "Z", " ", "0", "0">>,
    <<"$", "B", "Z", " ", "0">>, <<"$", "B", "Z", "1">>, <<"$", "B", "Z", "0", "0">>, <<"$", "B", "Z", "0">>,
    <<"$", "B", " ", "1">>, <<"$", "B", "1">>, <<"$", "B", " ", "0">>, <<"$", "B", "0">>,
    <<"$", "B", "D", " ", "1", "1">>, <<"$", "B", "D", "1", "1">>, <<"$", "B", "D", " ", "1">>,
    <<"$", "B", "D", " ", "0", "0">>, <<"$", "B", "D", " ", "0">>, <<"$", "B", "D", "1">>,
    <<"$", "B", "D", "0", "0">>, <<"$", "B", "D", "0">>, <<"F", "P", " ", "-", "1", "1", "1", "1", "1">>,
    <<"F", "P", "-", "1", "1", "1", "1", "1">>, <<"F", "P", " ", "1", "1", "1", "1", "1">>,
    <<"F", "P", " ", "+", "1", "1", "1", "1", "1">>, <<"F", "P", " ", " ", "1", "1", "1", "1", "1">>,
    <<"F", "P", " ", "-", "1">>, <<"F", "P", " ", "-", "0", "0", "0", "0", "0">>,
    <<"F", "P", " ", "-", "0">>, <<"F", "P", "1">>, <<"F", "P", " ", "1">>, <<"F", "P", "-", "1">>,
    <<"F", "P", "+", "1">>, <<"F", "P", "1", "1", "1", "1", "1">>, <<"F", "P", "0", "0", "0", "0", "0">>,
    <<"F", "P", "0">>, <<"F", "C", " ", "n">>, <<"F", "C", "n">>, <<"F", "C", " ", "s">>,
    <<"F", "C", " ", "e">>, <<"F", "C", "s">>, <<"F", "C", "e">>, <<"F", "L", "D", " ", "1">>,
    <<"F", "L", "D", "1">>, <<"F", "L", "D", " ", "2">>, <<"F", "L", "D", " ", "3">>, <<"F", "L", "D", "2">>,
    <<"F", "L", "D", "3">>, <<"F", "L", "N", " ", "1", "a", "a", "a">>,
    <<"F", "L", "N", "1", "a", "a", "a">>, <<"F", "L", "N", " ", "2", "a", "a", "a">>,
    <<"F", "L", "N", " ", "3", "a", "a", "a">>, <<"F", "L", "N", " ", "1", "a">>,
    <<"F", "L", "N", " ", "1", "_", "_", "_">>, <<"F", "L", "N", " ", "1", "_">>,
    <<"F", "L", "N", " ", "1", " ", " ", " ">>, <<"F", "L", "N", " ", "1", " ">>,
    <<"F", "L", "N", "1", "a">>, <<"F", "L", "N", "2", "a">>, <<"F", "L", "N", "3", "a">>,
    <<"F", "L", "N", "1", "_", "_", "_">>, <<"F", "L", "N", "1", "_">>,
    <<"F", "L", "N", "1", " ", " ", " ">>, <<"F", "L", "N", "1", " ">>, <<"F", "L", "S", " ", "1">>,
    <<"F", "L", "S", "1">>, <<"F", "L", "S", " ", "2">>, <<"F", "L", "S", " ", "3">>, <<"F", "L", "S", "2">>,
    <<"F", "L", "S", "3">>, <<"F", " ", "1">>, <<"F", "1">>, <<"F", " ", "2">>, <<"F", " ", "3">>,
    <<"F", "2">>, <<"F", "3">>,
    <<"h", "I", " ", "1", "1", "1", "1", "1", "1", "1", "1", "1", "1", "1", "1">>,
    <<"h", "I", "1", "1", "1", "1", "1", "1", "1", "1", "1", "1", "1", "1">>,
    <<"h", "I", " ", "0", "0", "1", "1", "1", "1", "1", "1", "1", "1", "1", "1">>,
    <<"h", "I", " ", "1", "1", "0", "0", "1", "1", "1", "1", "1", "1", "1", "1">>,
    <<"h", "I", " ", "1", "1", "1", "1", "0", "0", "1", "1", "1", "1", "1", "1">>,
    <<"h", "I", " ", "1", "1", "1", "1", "1", "1", "0", "0", "1", "1", "1", "1">>,
    <<"h", "I", " ", "1", "1", "1", "1", "1", "1", "1", "1", "0", "0", "1", "1">>,
    <<"h", "I", " ", "1", "1", "1", "1", "1", "1", "1", "1", "1", "1", "0", "0">>,
    <<"h", "I", "0", "0", "1", "1", "1", "1", "1", "1", "1", "1", "1", "1">>,
    <<"h", "I", "1", "1", "0", "0", "1", "1", "1", "1", "1", "1", "1", "1">>,
    <<"h", "I", "1", "1", "1", "1", "0", "0", "1", "1", "1", "1", "1", "1">>,
    <<"h", "I", "1", "1", "1", "1", "1", "1", "0", "0", "1", "1", "1", "1">>,
    <<"h", "I", "1", "1", "1", "1", "1", "1", "1", "1", "0", "0", "1", "1">>,
    <<"h", "I", "1", "1", "1", "1", "1", "1", "1", "1", "1", "1", "0", "0">>,
    <<"M", "g", "n", " ", "1", "1", "1", "1">>, <<"M", "g", "n", "1", "1", "1", "1">>,
    <<"M", "g", "n", " ", "0", "0", "0", "0">>, <<"M", "g", "n", "0", "0", "0", "0">>,
    <<"M", "g", "s", " ", "1", "1", "1", "1">>, <<"M", "g", "s", "1", "1", "1", "1">>,
    <<"M", "g", "s", " ", "0", "0", "0", "0">>, <<"M", "g", "s", "0", "0", "0", "0">>,
    <<"M", "g", "e", " ", "1", "1", "1", "1">>, <<"M", "g", "e", "1", "1", "1", "1">>,
    <<"M", "g", "e", " ", "0", "0", "0", "0">>, <<"M", "g", "e", "0", "0", "0", "0">>,
    <<"M", "g", "w", " ", "1", "1", "1", "1">>, <<"M", "g", "w", "1", "1", "1", "1">>,
    <<"M", "g", "w", " ", "0", "0", "0", "0">>, <<"M", "g", "w", "0", "0", "0", "0">>, <<"W", " ", "1">>,
    <<"W", "1">>, <<"W", " ", "0">>, <<"W", "0">>, <<"R", "A", " ", "1", "1", ".", "1">>,
    <<"R", "A", "1", "1", ".", "1">>, <<"R", "A", " ", "0", "1", ".", "1">>,
    <<"R", "A", " ", "1", "0", ".", "1">>, <<"R", "A", " ", "1", "1", ".", "0">>,
    <<"R", "A", "0", "1", ".", "1">>, <<"R", "A", "1", "0", ".", "1">>, <<"R", "A", "1", "1", ".", "0">>,
    <<"R", "e", " ", "1", "1", ".", "1">>, <<"R", "e", "1", "1", ".", "1">>,
    <<"R", "e", " ", "0", "1", ".", "1">>, <<"R", "e", " ", "1", "0", ".", "1">>,
    <<"R", "e", " ", "1", "1", ".", "0">>, <<"R", "e", "0", "1", ".", "1">>,
    <<"R", "e", "1", "0", ".", "1">>, <<"R", "e", "1", "1", ".", "0">>,
    <<"R", "g", " ", "1", "1", ".", "1">>, <<"R", "g", "1", "1", ".", "1">>,
    <<"R", "g", " ", "0", "1", ".", "1">>, <<"R", "g", " ", "1", "0", ".", "1">>,
    <<"R", "g", " ", "1", "1", ".", "0">>, <<"R", "g", "0", "1", ".", "1">>,
    <<"R", "g", "1", "0", ".", "1">>, <<"R", "g", "1", "1", ".", "0">>,
    <<"S", "a", " ", "-", "1", "1", "*", "1", "1", "'", "1", "1">>,
    <<"S", "a", "-", "1", "1", "*", "1", "1", "'", "1", "1">>,
    <<"S", "a", " ", "1", "1", "*", "1", "1", "'", "1", "1">>,
    <<"S", "a", " ", "+", "1", "1", "*", "1", "1", "'", "1", "1">>,
    <<"S", "a", " ", " ", "1", "1", "*", "1", "1", "'", "1", "1">>,
    <<"S", "a", " ", "-", "0", "0", "*", "1", "1", "'", "1", "1">>,
    <<"S", "a", " ", "-", "1", "1", "*", "0", "0", "'", "1", "1">>,
    <<"S", "a", " ", "-", "1", "1", "*", "1", "1", "1", "1">>,
    <<"S", "a", " ", "-", "1", "1", "*", "1", "1", "'">>,
    <<"S", "a", " ", "-", "1", "1", "*", "1", "1", "'", "0", "0">>, <<"S", "a", "1", "1", "*", "1", "1">>,
    <<"S", "a", " ", "1", "1", "*", "1", "1">>, <<"S", "a", "-", "1", "1", "*", "1", "1">>,
    <<"S", "a", "+", "1", "1", "*", "1", "1">>, <<"S", "a", "0", "0", "*", "1", "1">>,
    <<"S", "a", "1", "1", "*", "0", "0">>, <<"S", "a", "1", "1", "*", "1", "1", "'">>,
    <<"S", "a", "1", "1", "*", "1", "1", "1", "1">>, <<"S", "a", "1", "1", "*", "1", "1", "0", "0">>,
    <<"S", "b", " ", "-", "1", "1", ".", "1">>, <<"S", "b", "-", "1", "1", ".", "1">>,
    <<"S", "b", " ", "1", "1", ".", "1">>, <<"S", "b", " ", "+", "1", "1", ".", "1">>,
    <<"S", "b", " ", " ", "1", "1", ".", "1">>, <<"S", "b", " ", "-", "0", "1", ".", "1">>,
    <<"S", "b", " ", "-", "1", "0", ".", "1">>, <<"S", "b", " ", "-", "1", "1", ".", "0">>,
    <<"S", "b", "1", "1", ".", "1">>, <<"S", "b", "+", "1", "1", ".", "1">>,
    <<"S", "b", "0", "1", ".", "1">>, <<"S", "b", "1", "0", ".", "1">>, <<"S", "b", "1", "1", ".", "0">>,
    <<"S", "B", " ", "1">>, <<"S", "B", "1">>, <<"S", "B", " ", "0">>, <<"S", "B", "0">>,
    <<"S", "C", " ", "1", "1", "/", "1", "1", "/", "1", "1">>,
    <<"S", "C", "1", "1", "/", "1", "1", "/", "1", "1">>,
    <<"S", "C", " ", "0", "1", "/", "1", "1", "/", "1", "1">>,
    <<"S", "C", " ", "1", "0", "/", "1", "1", "/", "1", "1">>,
    <<"S", "C", " ", "1", "1", "/", "0", "1", "/", "1", "1">>,
    <<"S", "C", " ", "1", "1", "/", "1", "0", "/", "1", "1">>,
    <<"S", "C", " ", "1", "1", "/", "1", "1", "/", "0", "1">>,
    <<"S", "C", " ", "1", "1", "/", "1", "1", "/", "1", "0">>,
    <<"S", "C", "0", "1", "/", "1", "1", "/", "1", "1">>,
    <<"S", "C", "1", "0", "/", "1", "1", "/", "1", "1">>,
    <<"S", "C", "1", "1", "/", "0", "1", "/", "1", "1">>,
    <<"S", "C", "1", "1", "/", "1", "0", "/", "1", "1">>,
    <<"S", "C", "1", "1", "/", "1", "1", "/", "0", "1">>,
    <<"S", "C", "1", "1", "/", "1", "1", "/", "1", "0">>,
    <<"S", "d", " ", "-", "1", "1", ":", "1", "1", ":", "1", "1">>,
    <<"S", "d", "-", "1", "1", ":", "1", "1", ":", "1", "1">>,
    <<"S", "d", " ", "1", "1", ":", "1", "1", ":", "1", "1">>,
    <<"S", "d", " ", "+", "1", "1", ":", "1", "1", ":", "1", "1">>,
    <<"S", "d", " ", " ", "1", "1", ":", "1", "1", ":", "1", "1">>,
    <<"S", "d", " ", "-", "0", "0", ":", "1", "1", ":", "1", "1">>,
    <<"S", "d", " ", "-", "1", "1", ":", "0", "0", ":", "1", "1">>,
    <<"S", "d", " ", "-", "1", "1", ":", "1", "1", "1", "1">>,
    <<"S", "d", " ", "-", "1", "1", ":", "1", "1", ":">>,
    <<"S", "d", " ", "-", "1", "1", ":", "1", "1", ":", "0", "0">>, <<"S", "d", "1", "1", ":", "1", "1">>,
    <<"S", "d", " ", "1", "1", ":", "1", "1">>, <<"S", "d", "-", "1", "1", ":", "1", "1">>,
    <<"S", "d", "+", "1", "1", ":", "1", "1">>, <<"S", "d", "0", "0", ":", "1", "1">>,
    <<"S", "d", "1", "1", ":", "0", "0">>, <<"S", "d", "1", "1", ":", "1", "1", ":">>,
    <<"S", "d", "1", "1", ":", "1", "1", "1", "1">>, <<"S", "d", "1", "1", ":", "1", "1", "0", "0">>,
    <<"S", "E", " ", "-", "1", "1", ":", "1", "1", ":", "1", "1">>,
    <<"S", "E", "-", "1", "1", ":", "1", "1", ":", "1", "1">>,
    <<"S", "E", " ", "1", "1", ":", "1", "1", ":", "1", "1">>,
    <<"S", "E", " ", "+", "1", "1", ":", "1", "1", ":", "1", "1">>,
    <<"S", "E", " ", " ", "1", "1", ":", "1", "1", ":", "1", "1">>,
    <<"S", "E", " ", "-", "0", "0", ":", "1", "1", ":", "1", "1">>,
    <<"S", "E", " ", "-", "1", "1", ":", "0", "0", ":", "1", "1">>,
    <<"S", "E", " ", "-", "1", "1", ":", "1", "1", "1", "1">>,
    <<"S", "E", " ", "-", "1", "1", ":", "1", "1", ":">>,
    <<"S", "E", " ", "-", "1", "1", ":", "1", "1", ":", "0", "0">>, <<"S", "E", "1", "1", ":", "1", "1">>,
    <<"S", "E", " ", "1", "1", ":", "1", "1">>, <<"S", "E", "-", "1", "1", ":", "1", "1">>,
    <<"S", "E", "+", "1", "1", ":", "1", "1">>, <<"S", "E", "0", "0", ":", "1", "1">>,
    <<"S", "E", "1", "1", ":", "0", "0">>, <<"S", "E", "1", "1", ":", "1", "1", ":">>,
    <<"S", "E", "1", "1", ":", "1", "1", "1", "1">>, <<"S", "E", "1", "1", ":", "1", "1", "0", "0">>,
    <<"S", "e", " ", "-", "1", "1", ":", "1", "1", ":", "1", "1">>,
    <<"S", "e", "-", "1", "1", ":", "1", "1", ":", "1", "1">>,
    <<"S", "e", " ", "1", "1", ":", "1", "1", ":", "1", "1">>,
    <<"S", "e", " ", "+", "1", "1", ":", "1", "1", ":", "1", "1">>,
    <<"S", "e", " ", " ", "1", "1", ":", "1", "1", ":", "1", "1">>,
    <<"S", "e", " ", "-", "0", "0", ":", "1", "1", ":", "1", "1">>,
    <<"S", "e", " ", "-", "1", "1", ":", "0", "0", ":", "1", "1">>,
    <<"S", "e", " ", "-", "1", "1", ":", "1", "1", "1", "1">>,
    <<"S", "e", " ", "-", "1", "1", ":", "1", "1", ":">>,
    <<"S", "e", " ", "-", "1", "1", ":", "1", "1", ":", "0", "0">>, <<"S", "e", "1", "1", ":", "1", "1">>,
    <<"S", "e", " ", "1", "1", ":", "1", "1">>, <<"S", "e", "-", "1", "1", ":", "1", "1">>,
    <<"S", "e", "+", "1", "1", ":", "1", "1">>, <<"S", "e", "0", "0", ":", "1", "1">>,
    <<"S", "e", "1", "1", ":", "0", "0">>, <<"S", "e", "1", "1", ":", "1", "1", ":">>,
    <<"S", "e", "1", "1", ":", "1", "1", "1", "1">>, <<"S", "e", "1", "1", ":", "1", "1", "0", "0">>,
    <<"S", "f", " ", "-", "1", "1", ".", "1">>, <<"S", "f", "-", "1", "1", ".", "1">>,
    <<"S", "f", " ", "1", "1", ".", "1">>, <<"S", "f", " ", "+", "1", "1", ".", "1">>,
    <<"S", "f", " ", " ", "1", "1", ".", "1">>, <<"S", "f", " ", "-", "0", "1", ".", "1">>,
    <<"S", "f", " ", "-", "1", "0", ".", "1">>, <<"S", "f", " ", "-", "1", "1", ".", "0">>,
    <<"S", "f", "1", "1", ".", "1">>, <<"S", "f", "+", "1", "1", ".", "1">>,
    <<"S", "f", "0", "1", ".", "1">>, <<"S", "f", "1", "0", ".", "1">>, <<"S", "f", "1", "1", ".", "0">>,
    <<"S", "F", " ", "1", "1", "1">>, <<"S", "F", "1", "1", "1">>, <<"S", "F", " ", "0", "0", "0">>,
    <<"S", "F", "0", "0", "0">>, <<"S", "g", " ", "1", "1", "1", "*", "1", "1">>,
    <<"S", "g", "1", "1", "1", "*", "1", "1">>, <<"S", "g", " ", "0", "0", "0", "*", "1", "1">>,
    <<"S", "g", " ", "1", "1", "1", ":", "1", "1">>, <<"S", "g", " ", "1", "1", "1", "*", "0", "1">>,
    <<"S", "g", " ", "1", "1", "1", "*", "1", "0">>, <<"S", "g", "0", "0", "0", "*", "1", "1">>,
    <<"S", "g", "1", "1", "1", ":", "1", "1">>, <<"S", "g", "1", "1", "1", "*", "0", "1">>,
    <<"S", "g", "1", "1", "1", "*", "1", "0">>, <<"S", "G", " ", "-", "1", "1", ".", "1">>,
    <<"S", "G", "-", "1", "1", ".", "1">>, <<"S", "G", " ", "1", "1", ".", "1">>,
    <<"S", "G", " ", "+", "1", "1", ".", "1">>, <<"S", "G", " ", " ", "1", "1", ".", "1">>,
    <<"S", "G", " ", "-", "0", "1", ".", "1">>, <<"S", "G", " ", "-", "1", "0", ".", "1">>,
    <<"S", "G", " ", "-", "1", "1", "1">>, <<"S", "G", " ", "-", "1", "1", ".">>,
    <<"S", "G", " ", "-", "1", "1", ".", "0">>, <<"S", "G", "1", "1">>, <<"S", "G", " ", "1", "1">>,
    <<"S", "G", "-", "1", "1">>, <<"S", "G", "+", "1", "1">>, <<"S", "G", "0", "1">>, <<"S", "G", "1", "0">>,
    <<"S", "G", "1", "1", ".">>, <<"S", "G", "1", "1", "1">>, <<"S", "G", "1", "1", "0">>,
    <<"S", "H", " ", "1">>, <<"S", "H", "1">>, <<"S", "H", " ", "0">>, <<"S", "H", "0">>,
    <<"S", "h", " ", "1", "1">>, <<"S", "h", "1", "1">>, <<"S", "h", " ", "0", "1">>,
    <<"S", "h", " ", "1", "0">>, <<"S", "h", "0", "1">>, <<"S", "h", "1", "0">>,
    <<"S", "l", " ", "1", "1", "1">>, <<"S", "l", "1", "1", "1">>, <<"S", "l", " ", "0", "0", "0">>,
    <<"S", "l", "0", "0", "0">>, <<"S", "s", " ", "1", "1", "1">>, <<"S", "s", "1", "1", "1">>,
    <<"S", "s", " ", "0", "0", "0">>, <<"S", "s", "0", "0", "0">>,
    <<"S", "L", " ", "1", "1", ":", "1", "1", ":", "1", "1">>,
    <<"S", "L", "1", "1", ":", "1", "1", ":", "1", "1">>,
    <<"S", "L", " ", "0", "0", ":", "1", "1", ":", "1", "1">>,
    <<"S", "L", " ", "1", "1", ":", "0", "0", ":", "1", "1">>,
    <<"S", "L", " ", "1", "1", ":", "1", "1", ":", "0", "0">>,
    <<"S", "L", "0", "0", ":", "1", "1", ":", "1", "1">>,
    <<"S", "L", "1", "1", ":", "0", "0", ":", "1", "1">>,
    <<"S", "L", "1", "1", ":", "1", "1", ":", "0", "0">>,
    <<"S", "M", " ", "a", "a", "a", "a", "a", "a", "a", "a", "a", "a", "a", "a", "a", "a", "a">>,
    <<"S", "M", "a", "a", "a", "a", "a", "a", "a", "a", "a", "a", "a", "a", "a", "a", "a">>,
    <<"S", "M", " ", "a">>,
    <<"S", "M", " ", "_", "_", "_", "_", "_", "_", "_", "_", "_", "_", "_", "_", "_", "_", "_">>,
    <<"S", "M", " ", "_">>,
    <<"S", "M", " ", " ", " ", " ", " ", " ", " ", " ", " ", " ", " ", " ", " ", " ", " ", " ">>,
    <<"S", "M", " ", " ">>, <<"S", "M", "a">>,
    <<"S", "M", "_", "_", "_", "_", "_", "_", "_", "_", "_", "_", "_", "_", "_", "_", "_">>,
    <<"S", "M", "_">>,
    <<"S", "M", " ", " ", " ", " ", " ", " ", " ", " ", " ", " ", " ", " ", " ", " ", " ">>,
    <<"S", "M", " ">>,
    <<"S", "N", " ", "a", "a", "a", "a", "a", "a", "a", "a", "a", "a", "a", "a", "a", "a", "a">>,
    <<"S", "N", "a", "a", "a", "a", "a", "a", "a", "a", "a", "a", "a", "a", "a", "a", "a">>,
    <<"S", "N", " ", "a">>,
    <<"S", "N", " ", "_", "_", "_", "_", "_", "_", "_", "_", "_", "_", "_", "_", "_", "_", "_">>,
    <<"S", "N", " ", "_">>,
    <<"S", "N", " ", " ", " ", " ", " ", " ", " ", " ", " ", " ", " ", " ", " ", " ", " ", " ">>,
    <<"S", "N", " ", " ">>, <<"S", "N", "a">>,
    <<"S", "N", "_", "_", "_", "_", "_", "_", "_", "_", "_", "_", "_", "_", "_", "_", "_">>,
    <<"S", "N", "_">>,
    <<"S", "N", " ", " ", " ", " ", " ", " ", " ", " ", " ", " ", " ", " ", " ", " ", " ">>,
    <<"S", "N", " ">>,
    <<"S", "O", " ", "a", "a", "a", "a", "a", "a", "a", "a", "a", "a", "a", "a", "a", "a", "a">>,
    <<"S", "O", "a", "a", "a", "a", "a", "a", "a", "a", "a", "a", "a", "a", "a", "a", "a">>,
    <<"S", "O", " ", "a">>,
    <<"S", "O", " ", "_", "_", "_", "_", "_", "_", "_", "_", "_", "_", "_", "_", "_", "_", "_">>,
    <<"S", "O", " ", "_">>,
    <<"S", "O", " ", " ", " ", " ", " ", " ", " ", " ", " ", " ", " ", " ", " ", " ", " ", " ">>,
    <<"S", "O", " ", " ">>, <<"S", "O", "a">>,
    <<"S", "O", "_", "_", "_", "_", "_", "_", "_", "_", "_", "_", "_", "_", "_", "_", "_">>,
    <<"S", "O", "_">>,
    <<"S", "O", " ", " ", " ", " ", " ", " ", " ", " ", " ", " ", " ", " ", " ", " ", " ">>,
    <<"S", "O", " ">>,
    <<"S", "P", " ", "a", "a", "a", "a", "a", "a", "a", "a", "a", "a", "a", "a", "a", "a", "a">>,
    <<"S", "P", "a", "a", "a", "a", "a", "a", "a", "a", "a", "a", "a", "a", "a", "a", "a">>,
    <<"S", "P", " ", "a">>,
    <<"S", "P", " ", "_", "_", "_", "_", "_", "_", "_", "_", "_", "_", "_", "_", "_", "_", "_">>,
    <<"S", "P", " ", "_">>,
    <<"S", "P", " ", " ", " ", " ", " ", " ", " ", " ", " ", " ", " ", " ", " ", " ", " ", " ">>,
    <<"S", "P", " ", " ">>, <<"S", "P", "a">>,
    <<"S", "P", "_", "_", "_", "_", "_", "_", "_", "_", "_", "_", "_", "_", "_", "_", "_">>,
    <<"S", "P", "_">>,
    <<"S", "P", " ", " ", " ", " ", " ", " ", " ", " ", " ", " ", " ", " ", " ", " ", " ">>,
    <<"S", "P", " ">>, <<"S", "o", " ", "1", "1", "*">>, <<"S", "o", "1", "1", "*">>,
    <<"S", "o", " ", "0", "1", "*">>, <<"S", "o", " ", "1", "0", "*">>, <<"S", "o", "0", "1", "*">>,
    <<"S", "o", "1", "0", "*">>, <<"S", "p", "B", " ", "1", "1">>, <<"S", "p", "B", "1", "1">>,
    <<"S", "p", "B", " ", "0", "1">>, <<"S", "p", "B", " ", "1", "0">>, <<"S", "p", "B", "0", "1">>,
    <<"S", "p", "B", "1", "0">>, <<"S", "p", "H", " ", "1", "1">>, <<"S", "p", "H", "1", "1">>,
    <<"S", "p", "H", " ", "0", "1">>, <<"S", "p", "H", " ", "1", "0">>, <<"S", "p", "H", "0", "1">>,
    <<"S", "p", "H", "1", "0">>, <<"S", "p", "S", " ", "1", "1", "1">>, <<"S", "p", "S", "1", "1", "1">>,
    <<"S", "p", "S", " ", "0", "1", "1">>, <<"S", "p", "S", " ", "1", "0", "1">>,
    <<"S", "p", "S", " ", "1", "1", "0">>, <<"S", "p", "S", "0", "1", "1">>,
    <<"S", "p", "S", "1", "0", "1">>, <<"S", "p", "S", "1", "1", "0">>,
    <<"S", "r", " ", "1", "1", ":", "1", "1", ".", "1", ":", "1", "1">>,
    <<"S", "r", "1", "1", ":", "1", "1", ".", "1", ":", "1", "1">>,
    <<"S", "r", " ", "0", "0", ":", "1", "1", ".", "1", ":", "1", "1">>,
    <<"S", "r", " ", "1", "1", ":", "0", "0", ".", "1", ":", "1", "1">>,
    <<"S", "r", " ", "1", "1", ":", "1", "1", "1", ":", "1", "1">>,
    <<"S", "r", " ", "1", "1", ":", "1", "1", ".", ":", "1", "1">>,
    <<"S", "r", " ", "1", "1", ":", "1", "1", ".", "0", ":", "1", "1">>,
    <<"S", "r", " ", "1", "1", ":", "1", "1", ".", "1", "1", "1">>,
    <<"S", "r", " ", "1", "1", ":", "1", "1", ".", "1", ":">>,
    <<"S", "r", " ", "1", "1", ":", "1", "1", ".", "1", ":", "0", "0">>,
    <<"S", "r", "1", "1", ":", "1", "1">>, <<"S", "r", " ", "1", "1", ":", "1", "1">>,
    <<"S", "r", "0", "0", ":", "1", "1">>, <<"S", "r", "1", "1", ":", "0", "0">>,
    <<"S", "r", "1", "1", ":", "1", "1", ".">>, <<"S", "r", "1", "1", ":", "1", "1", "1">>,
    <<"S", "r", "1", "1", ":", "1", "1", "0">>, <<"S", "r", "1", "1", ":", "1", "1", ":">>,
    <<"S", "r", "1", "1", ":", "1", "1", "1", "1">>, <<"S", "r", "1", "1", ":", "1", "1", "0", "0">>,
    <<"S", "S", " ", "1", "1", ":", "1", "1", ":", "1", "1">>,
    <<"S", "S", "1", "1", ":", "1", "1", ":", "1", "1">>,
    <<"S", "S", " ", "0", "0", ":", "1", "1", ":", "1", "1">>,
    <<"S", "S", " ", "1", "1", ":", "0", "0", ":", "1", "1">>,
    <<"S", "S", " ", "1", "1", ":", "1", "1", ":", "0", "0">>,
    <<"S", "S", "0", "0", ":", "1", "1", ":", "1", "1">>,
    <<"S", "S", "1", "1", ":", "0", "0", ":", "1", "1">>,
    <<"S", "S", "1", "1", ":", "1", "1", ":", "0", "0">>,
    <<"S", "t", " ", "-", "1", "1", "*", "1", "1", ":", "1", "1">>,
    <<"S", "t", "-", "1", "1", "*", "1", "1", ":", "1", "1">>,
    <<"S", "t", " ", "1", "1", "*", "1", "1", ":", "1", "1">>,
    <<"S", "t", " ", "+", "1", "1", "*", "1", "1", ":", "1", "1">>,
    <<"S", "t", " ", " ", "1", "1", "*", "1", "1", ":", "1", "1">>,
    <<"S", "t", " ", "-", "0", "0", "*", "1", "1", ":", "1", "1">>,
    <<"S", "t", " ", "-", "1", "1", ":", "1", "1", ":", "1", "1">>,
    <<"S", "t", " ", "-", "1", "1", "*", "0", "1", ":", "1", "1">>,
    <<"S", "t", " ", "-", "1", "1", "*", "1", "0", ":", "1", "1">>,
    <<"S", "t", " ", "-", "1", "1", "*", "1", "1", ":", "0", "1">>,
    <<"S", "t", " ", "-", "1", "1", "*", "1", "1", ":", "1", "0">>,
    <<"S", "t", "1", "1", "*", "1", "1", ":", "1", "1">>,
    <<"S", "t", "+", "1", "1", "*", "1", "1", ":", "1", "1">>,
    <<"S", "t", "0", "0", "*", "1", "1", ":", "1", "1">>,
    <<"S", "t", "1", "1", ":", "1", "1", ":", "1", "1">>,
    <<"S", "t", "1", "1", "*", "0", "1", ":", "1", "1">>,
    <<"S", "t", "1", "1", "*", "1", "0", ":", "1", "1">>,
    <<"S", "t", "1", "1", "*", "1", "1", ":", "0", "1">>,
    <<"S", "t", "1", "1", "*", "1", "1", ":", "1", "0">>,
    <<"S", "T", " ", "1", "1", "1", "1", ".", "1", "1", "1", "1", "1">>,
    <<"S", "T", "1", "1", "1", "1", ".", "1", "1", "1", "1", "1">>,
    <<"S", "T", " ", "1", "1", ".", "1", "1", "1", "1", "1", "1">>,
    <<"S", "T", " ", "0", "0", "0", "0", ".", "1", "1", "1", "1", "1">>,
    <<"S", "T", " ", "0", "0", ".", "1", "1", "1", "1", "1", "1">>,
    <<"S", "T", " ", "1", "1", "1", "1", "1", "1", "1", "1", "1">>,
    <<"S", "T", " ", "1", "1", "1", "1", ".">>,
    <<"S", "T", " ", "1", "1", "1", "1", ".", "0", "0", "0", "0", "0">>, <<"S", "T", "1", "1">>,
    <<"S", "T", " ", "1", "1">>, <<"S", "T", "1", "1", "1", "1">>, <<"S", "T", "0", "0", "0", "0">>,
    <<"S", "T", "0", "0">>, <<"S", "T", "1", "1", ".">>,
    <<"S", "T", "1", "1", "1", "1", "1", "1", "1", "1">>,
    <<"S", "T", "1", "1", "0", "0", "0", "0", "0", "0">>, <<"S", "w", " ", "1">>, <<"S", "w", "1">>,
    <<"S", "w", " ", "0">>, <<"S", "w", "0">>, <<"S", "z", " ", "1", "1", "1", "*", "1", "1">>,
    <<"S", "z", "1", "1", "1", "*", "1", "1">>, <<"S", "z", " ", "0", "0", "0", "*", "1", "1">>,
    <<"S", "z", " ", "1", "1", "1", "*", "0", "0">>, <<"S", "z", "0", "0", "0", "*", "1", "1">>,
    <<"S", "z", "1", "1", "1", "*", "0", "0">>, <<"S", "T", "+">>, <<"T", "+">>, <<"S", "T", "-">>,
    <<"T", "-">>, <<>>, <<"X", "Y", "Z">>, <<"G", "A", "x">>, <<"x", "G", "A">>, <<"S", "T", "A">>, <<"G">>,
    <<"G", "A", "A">>, <<"S", "d">>, <<"S", "T">>, <<"1", "2">>, <<"$", "B">>, <<":">>, <<":", ":">>,
    <<"D", ":">>, <<" ", "G", "A">>, <<"G", "A", " ">>,
    <<"S", "d", "-", "1", "2", ":", "3", "0", ":", "0", "0">>,
    <<"S", "d", "+", "1", "2", ":", "3", "0", ":", "0", "0">>,
    <<"S", "d", "-", "0", "0", ":", "3", "0", ":", "1", "0">>,
    <<"S", "r", "1", "2", ":", "3", "4", ":", "5", "6">>, <<"S", "r", "1", "2", ":", "3", "4", ".", "5">>,
    <<"S", "r", " ", "1", "2", ":", "3", "4", ":", "5", "6">>,
    <<"S", "L", " ", "1", "0", ":", "2", "0", ":", "3", "0">>,
    <<"S", "L", "1", "0", ":", "2", "0", ":", "3", "0">>, <<"S", "G", "-", "0", "3">>,
    <<"S", "G", " ", "+", "5">>, <<"S", "G", " ", "1", "2", ".">>, <<"F", "P", " ", " ", "1", "2">>,
    <<"F", "P", "-", "1", "2", "3", "4", "5">>, <<"S", "a", " ", " ", "1", "2", "*", "3", "0">>,
    <<"S", "a", "-", "1", "2", "*", "3", "0", "'", "4", "5">>,
    <<"S", "t", "-", "3", "4", "*", "3", "6", ":", "1", "0">>, <<"F", "L", "N", "3", "a", "b", "c">>,
    <<"F", "L", "N", " ", "9", "a", " ", "b">>, <<"S", "M", " ", "H", "o", "m", "e">>,
    <<"S", "T", "6", "0", ".", "1">>, <<"S", "T", " ", "6", "0">>,
    <<"S", "T", "0", "0", "6", "0", ".", "2", "5">>, <<"S", "w", "4">>, <<"W", "2">>,
    <<"S", "C", "0", "3", "/", "1", "5", "/", "2", "1">>,
    <<"h", "I", "2", "1", "0", "3", "1", "5", "1", "0", "2", "0", "3", "0">>,
    <<"R", "A", "1", "2", ".", "5">>, <<"S", "z", "1", "2", "3", "*", "4", "5">>,
    <<"S", "g", " ", "0", "5", "8", ":", "3", "0">>,
    <<"x", "x", "x", "x", "x", "x", "x", "x", "x", "x", "x", "x", "x", "x", "x", "x", "x", "x", "x", "x", "x", "x", "x", "x", "x", "x", "x", "x", "x", "x", "x", "x">>,
    <<"x", "x", "x", "x", "x", "x", "x", "x", "x", "x", "x", "x", "x", "x", "x", "x", "x", "x", "x", "x", "x", "x", "x", "x", "x", "x", "x", "x", "x", "x", "x", "x", "x">>,
    <<"F", "L", "N", "1", "a", "a", "a", "a", "a", "a", "a", "a", "a", "a", "a", "a", "a", "a", "a", "a", "a", "a", "a", "a", "a", "a", "a", "a", "a", "a", "a", "a">>,
    <<"F", "L", "N", "1", "a", "a", "a", "a", "a", "a", "a", "a", "a", "a", "a", "a", "a", "a", "a", "a", "a", "a", "a", "a", "a", "a", "a", "a", "a", "a", "a", "a", "a">>,
    <<"x", "x", "x", "x", "x", "x", "x", "x", "x", "x", "x", "x", "x", "x", "x", "x", "x", "x", "x", "x", "x", "x", "x", "x", "x", "x", "x", "x", "x", "x", "x", "x", "x", ":", "G", "A">>
}

\* Parser.__init__: the default of maxlen
DEFAULT_MAXLEN == 32

LiteralEntries == {i \in 1..Len(ALL_COMMANDS) : ALL_COMMANDS[i].kind = "literal"}

LiteralPayloads == {ALL_COMMANDS[i].lit : i \in LiteralEntries}

Framed(payload) == <<COMMAND_START>> \o payload \o <<COMMAND_END>>

FrameInputs == {Framed(p) : p \in SamplePayloads \cup LiteralPayloads}

InitFrames ==
    /\ InitParser(DEFAULT_MAXLEN)
    /\ data = <<>>
    /\ pending = <<>>
    /\ store = EmptyMap
    /\ store_before = EmptyMap
    /\ response = NoResponse
    /\ response_before = NoResponse
    /\ committed = NoCommand
    /\ IdleServer

\* Parser.feed(d) is called and enters its loop
Feed(d) ==
    /\ data = <<>>
    /\ data' = d
    /\ pending' = d
    /\ UNCHANGED <<maxlen, state, buffer, output, failed, nemit, popped>>
    /\ UNCHANGED store_vars
    /\ UNCHANGED server_vars
    /\ UNCHANGED frame_vars

\* one turn of the loop of Parser.feed
FeedNext ==
    /\ pending # <<>>
    /\ feed_one(Head(pending), Tail(pending))
    /\ UNCHANGED <<data, popped>>
    /\ UNCHANGED store_vars
    /\ UNCHANGED server_vars

NextFrames ==
    \/ \E d \in FrameInputs : Feed(d)
    \/ FeedNext
    \/ Pop

SpecFrames == InitFrames /\ [][NextFrames]_vars

(* ------------------------------- store --------------------------------- *)

RECURSIVE NatStr(_)
\* str(n) for a natural number
NatStr(n) == IF n < 10 THEN DigitChar(n) ELSE NatStr(n \div 10) \o DigitChar(n % 10)

RECURSIVE FracStr(_, _)
\* the e decimals of the mantissa m
FracStr(m, e) == IF e = 0 THEN "" ELSE FracStr(m \div 10, e - 1) \o DigitChar(m % 10)

Pow10(e) == CASE e = 0 -> 1 [] e = 1 -> 10 [] e = 2 -> 100 [] e = 3 -> 1000
              [] e = 4 -> 10000 [] e = 5 -> 100000 [] e = 6 -> 1000000

Abs(n) == IF n < 0 THEN 0 - n ELSE n

\* str(value), as str.format renders a replacement field without format spec
ToStr(x) ==
    CASE x.t = "str" -> x.v
      [] x.t = "int" -> (IF x.v < 0 THEN "-" ELSE "") \o NatStr(Abs(x.v))
      [] x.t = "bool" -> (IF x.v THEN "True" ELSE "False")
      [] x.t = "None" -> "None"
      [] x.t = "float" -> (IF x.v[1] < 0 THEN "-" ELSE "")
                          \o NatStr(Abs(x.v[1]) \div Pow10(x.v[2])) \o "."
                          \o (IF x.v[2] = 0 THEN "0" ELSE FracStr(Abs(x.v[1]), x.v[2]))

\* a serialize that leaves the store_value of the class out of account
serialize_fields(entry, cmd) ==
    [k \in {entry.fields[i].name : i \in {j \in 1..Len(entry.fields) : entry.fields[j].repr}}
            \cap DOMAIN cmd.attrs |-> cmd.attrs[k]]

\* BaseCommand.serialize, on an instance of the class entry
serialize_of(entry, cmd) ==
    IF entry.has_store_value THEN entry.store_value
    ELSE [k \in {entry.fields[i].name : i \in {j \in 1..Len(entry.fields) : entry.fields[j].repr}}
                \cap DOMAIN cmd.attrs |-> cmd.attrs[k]]

\* command.serialize()
serialize(cmd) == serialize_of(ClassEntry(cmd.cls), cmd)

\* get_paths, on an instance of the class entry
get_paths_of(entry) == [store |-> entry.store_path, load |-> entry.load_path]

RECURSIVE format_literal(_, _)
\* a format that drops the replacement fields of the path
format_literal(path, fields) ==
    IF path = <<>> THEN [exc |-> "", val |-> ""]
    ELSE [exc |-> "", val |-> Head(path).lit \o format_literal(Tail(path), fields).val]

\* one segment of a path template, text then replacement field, before the formatted rest
FormatSegment(seg, fields, rest) ==
    IF seg.fld # "" /\ seg.fld \notin DOMAIN fields THEN [exc |-> "KeyError", val |-> ""]
    ELSE IF rest.exc # "" THEN rest
    ELSE [exc |-> "",
          val |-> seg.lit \o (IF seg.fld = "" THEN "" ELSE ToStr(fields[seg.fld])) \o rest.val]

RECURSIVE format(_, _)
\* path.format(**fields): [exc, val]
format(path, fields) ==
    IF path = <<>> THEN [exc |-> "", val |-> ""]
    ELSE FormatSegment(Head(path), fields, format(Tail(path), fields))

\* lines 21-23 and 31-33: the path formatted with the fields, none says it is None
Resolve(path, fields) ==
    IF path = NoPath THEN [exc |-> "", none |-> TRUE, path |-> ""]
    ELSE [exc |-> format(path, fields).exc, none |-> FALSE, path |-> format(path, fields).val]

\* get_load_path, on an instance of the class entry; line 20: paths['load'] or paths['store']
get_load_path_of(entry, cmd) ==
    Resolve(IF get_paths_of(entry).load # NoPath
            THEN get_paths_of(entry).load ELSE get_paths_of(entry).store,
            serialize_of(entry, cmd))

\* get_store_path, on an instance of the class entry; line 29: paths['store'] or paths['load']
get_store_path_of(entry, cmd) ==
    Resolve(IF get_paths_of(entry).store # NoPath
            THEN get_paths_of(entry).store ELSE get_paths_of(entry).load,
            serialize_of(entry, cmd))

\* get_load_path
get_load_path(cmd) == get_load_path_of(ClassEntry(cmd.cls), cmd)

\* get_store_path
get_store_path(cmd) == get_store_path_of(ClassEntry(cmd.cls), cmd)

\* self[path] of the defaultdict: the field-map at path, created empty if missing
Touch(st, path) == IF path \in DOMAIN st THEN st ELSE (path :> EmptyMap) @@ st

\* dict.setdefault for every key of new
setdefault_all(old, new) == old @@ new

\* an update in which the values already present win
update_keep(old, new) == old @@ new

\* dict.update
update(old, new) == new @@ old

\* a commit that replaces the field-map at the path by the serialized data
commit_at_replacing(st, path, fields) ==
    IF path.exc # "" THEN [exc |-> path.exc, store |-> st]
    ELSE IF path.none THEN [exc |-> "", store |-> st]
    ELSE [exc |-> "", store |-> [Touch(st, path.path) EXCEPT ![path.path] = fields]]

\* lines 63-69 of commit_command, on the resolved path and the serialized data
commit_at(st, path, fields) ==
    IF path.exc # "" THEN [exc |-> path.exc, store |-> st]
    ELSE IF path.none THEN [exc |-> "", store |-> st]
    ELSE [exc |-> "", store |-> [Touch(st, path.path) EXCEPT ![path.path] = update(@, fields)]]

\* a commit that writes every attribute of the command, not serialize()
commit_command_of_attrs(st, entry, cmd) ==
    commit_at(st, get_store_path_of(entry, cmd), cmd.attrs)

\* Store.commit_command, on an instance of the class entry
commit_command_of(st, entry, cmd) ==
    commit_at(st, get_store_path_of(entry, cmd), serialize_of(entry, cmd))

\* Store.commit_command: [exc, store]
commit_command(st, cmd) == commit_command_of(st, ClassEntry(cmd.cls), cmd)

\* lines 78-86 of fill_response, on the resolved path
fill_from(st, resp, path) ==
    IF path.exc # "" THEN [exc |-> path.exc, store |-> st, response |-> resp]
    ELSE IF path.none THEN [exc |-> "", store |-> st, response |-> resp]
    ELSE [exc |-> "", store |-> Touch(st, path.path),
          response |-> [resp EXCEPT !.attrs = update(@, Touch(st, path.path)[path.path])]]

\* a fill_response that takes a response without a command for one it has nothing to fill
fill_response_lenient(st, resp) ==
    IF resp.command = NoCommand THEN [exc |-> "", store |-> st, response |-> resp]
    ELSE fill_from(st, resp, get_load_path(resp.command))

\* Store.fill_response: [exc, store, response]
fill_response(st, resp) ==
    IF resp.command = NoCommand THEN [exc |-> "ValueError", store |-> st, response |-> resp]
    ELSE fill_from(st, resp, get_load_path(resp.command))

\* get_store_path(cmd()) for the class entry, in the loops of Store.__init__
SeedPath(entry) == get_store_path_of(entry, NewInstance(entry))

\* the catalog entries whose instances resolve to the store path p
CommandsAt(p) ==
    {i \in 1..Len(ALL_COMMANDS) : SeedPath(ALL_COMMANDS[i]) = [exc |-> "", none |-> FALSE, path |-> p]}

\* the defaults of the commands whose instances resolve to the store path p
DefaultsAt(p) ==
    {i \in 1..Len(COMMAND_DEFAULT_MAP) :
        SeedPath(ClassEntry(COMMAND_DEFAULT_MAP[i].command)) = [exc |-> "", none |-> FALSE, path |-> p]}

\* the paths the first loop of Store.__init__ touches (the second loop finds them all there)
SeedPaths ==
    {r.path : r \in {q \in {SeedPath(e) : e \in Range(ALL_COMMANDS)} : ~q.none}}

RECURSIVE SeedCommands(_, _, _)
\* the first loop of Store.__init__ as it acts on one path: the entries S of all, in order
SeedCommands(d, S, all) ==
    IF S = {} THEN d
    ELSE SeedCommands(IF all[Min(S)].has_store_value
                      THEN setdefault_all(d, all[Min(S)].store_value) ELSE d, S \ {Min(S)}, all)

\* a second loop that keeps what the first loop left at the path
seed_default_keep(d, item) == setdefault_all(d, item.data)

\* self[path].update(data) in the second loop of Store.__init__
seed_default(d, item) == update(d, item.data)

RECURSIVE SeedDefaults(_, _, _)
\* the second loop of Store.__init__ as it acts on one path: the defaults S of all, in order
SeedDefaults(d, S, all) ==
    IF S = {} THEN d
    ELSE SeedDefaults(seed_default(d, all[Min(S)]), S \ {Min(S)}, all)

\* Store(): the store after construction with seed_from_defaults=True. The loops write one
\* path per iteration, so each path is the result of the iterations that resolve to it.
Store ==
    [p \in SeedPaths |->
        SeedDefaults(SeedCommands(EmptyMap, CommandsAt(p), ALL_COMMANDS),
                     DefaultsAt(p), COMMAND_DEFAULT_MAP)]

(* ----------------------------- responses ------------------------------- *)

\* defaults.for_command
defaults_for_command(cmd) ==
    LET hits == {i \in 1..Len(COMMAND_DEFAULT_MAP) : COMMAND_DEFAULT_MAP[i].command = cmd.cls} IN
    IF hits = {} THEN EmptyMap ELSE COMMAND_DEFAULT_MAP[CHOOSE i \in hits : TRUE].data

\* cls(): a response with every attrs field at its default and no command assigned
NewResponse(cls) ==
    [cls |-> cls, command |-> NoCommand,
     attrs |-> [k \in {f.name : f \in Range(ALL_RESPONSES[cls])} \ {"command"} |->
                  (CHOOSE f \in Range(ALL_RESPONSES[cls]) : f.name = k).default]]

\* responses.for_command: [exc, response]
for_command(cmd) ==
    IF cmd.cls \notin DOMAIN COMMAND_RESPONSE_MAP
    THEN [exc |-> "KeyError", response |-> NoResponse]
    ELSE LET cls == COMMAND_RESPONSE_MAP[cmd.cls]
             fields == ALL_RESPONSES[cls]
             names == {fields[i].name : i \in 1..Len(fields)} \ {"command"}
             default_data == defaults_for_command(cmd)
         IN  IF \E k \in DOMAIN default_data : k \notin names
             THEN [exc |-> "TypeError", response |-> NoResponse]
             ELSE [exc |-> "",
                   response |-> [cls |-> cls, command |-> cmd,
                                 attrs |-> [k \in names |->
                                     IF k \in DOMAIN default_data THEN default_data[k]
                                     ELSE (CHOOSE f \in Range(fields) : f.name = k).default]]]

(* ------------------ the specification of the store --------------------- *)

\* commands committed to one store in a run of SpecStore
MaxCommits == 2

\* payloads of the commands SpecStore commits: setters with and without a field in their
\* path, two flag commands, a getter, a command with no path and an unknown command
CommitPayloads == {
    <<"F", "L", "N", "1", "a">>, <<"F", "L", "N", "3", "_">>,
    <<"S", "d", "-", "1", "2", ":", "3", "0", ":", "0", "0">>, <<"S", "d", "+", "1", "2", ":", "3", "0">>,
    <<"S", "r", "1", "2", ":", "3", "4", ":", "5", "6">>,
    <<"A", "L">>, <<"A", "P">>, <<"S", "H", "1">>, <<"G", "d">>, <<ACK_BYTE>>, <<"X", "Y", "Z">>,
    <<"S", "L", " ", "1", "2", ":", "3", "4", ":", "5", "6">>,
    <<"S", "L", " ", "0", "1", ":", "0", "2", ":", "0", "3">>
}

\* payloads of the commands SpecStore builds and fills responses for
FillPayloads == {
    <<"G", "d">>, <<"G", "r">>, <<"G", "H">>, <<"G", "L">>, <<"G", "h">>, <<ACK_BYTE>>,
    <<"F", "L", "N", "1", "a">>, <<"X", "Y", "Z">>, <<"G", "A">>, <<"G", "R">>, <<"D">>, <<"G", "a">>
}

\* responses made without a command: response()

CommitCommands == {parse(p).val : p \in CommitPayloads}

FillCommands == {parse(p).val : p \in FillPayloads}

InitStore ==
    /\ InitParser(DEFAULT_MAXLEN)
    /\ data = <<>>
    /\ pending = <<>>
    /\ store = Store
    /\ store_before = Store
    /\ response = NoResponse
    /\ response_before = NoResponse
    /\ committed = NoCommand
    /\ IdleServer

\* the store and the response after fill_response returned or raised
Filled(r) ==
    /\ failed' = r.exc
    /\ store' = r.store
    /\ response' = r.response

\* the response that for_command built is filled from the store
Built(r) ==
    /\ r.exc = ""
    /\ Filled(fill_response(store, r.response))
    /\ response_before' = r.response

\* store.commit_command(cmd)
CommitCommand(cmd) ==
    /\ failed = ""
    /\ ncommit < MaxCommits
    /\ failed' = commit_command(store, cmd).exc
    /\ store' = commit_command(store, cmd).store
    /\ ncommit' = ncommit + 1
    /\ committed' = cmd
    /\ store_before' = store
    /\ response' = NoResponse
    /\ response_before' = NoResponse
    /\ UNCHANGED <<maxlen, state, buffer, output, data, pending, nemit, popped>>
    /\ UNCHANGED server_vars
    /\ UNCHANGED frame_vars

\* store.fill_response(for_command(cmd)) on the response built for cmd
FillResponse(cmd) ==
    /\ failed = ""
    /\ Built(for_command(cmd))
    /\ UNCHANGED <<maxlen, state, buffer, output, data, pending, nemit, popped, committed, ncommit, store_before>>
    /\ UNCHANGED server_vars
    /\ UNCHANGED frame_vars

\* store.fill_response(resp) on a response that was made without a command
FillUnassigned(resp) ==
    /\ failed = ""
    /\ Filled(fill_response(store, resp))
    /\ response_before' = resp
    /\ UNCHANGED <<maxlen, state, buffer, output, data, pending, nemit, popped, committed, ncommit, store_before>>
    /\ UNCHANGED server_vars
    /\ UNCHANGED frame_vars

NextStore ==
    \/ \E cmd \in CommitCommands : CommitCommand(cmd)
    \/ \E cmd \in FillCommands : FillResponse(cmd)
    \/ \E cls \in {"ACK", "DMSResponse", "EmptyResponse"} : FillUnassigned(NewResponse(cls))

SpecStore == InitStore /\ [][NextStore]_vars

(* ------------- setters and the getters that answer after them ----------- *)

\* payloads of the commands SpecReplies commits: the time format toggle, the setters of
\* the target position, a getter of the current position and two numeric setters
ReplyCommitPayloads == {
    <<"H">>, <<"G", "D">>,
    <<"S", "a", "-", "1", "2", "*", "3", "0", "'", "4", "5">>,
    <<"S", "z", "1", "2", "3", "*", "4", "5">>,
    <<"S", "d", "-", "1", "2", ":", "3", "0", ":", "0", "0">>,
    <<"S", "r", "1", "2", ":", "3", "4", ":", "5", "6">>,
    <<"S", "w", "0">>, <<"S", "w", "3">>, <<"S", "G", "+", "0", "0">>, <<"S", "G", "-", "0", "3">>,
    <<"S", "T", "0", "0", ".", "0">>, <<"S", "T", "6", "0", ".", "1">>
}

\* payloads of the commands SpecReplies builds and fills responses for
ReplyFillPayloads == {
    <<"G", "c">>, <<"G", "A">>, <<"G", "D">>, <<"G", "R">>, <<"G", "Z">>,
    <<"S", "w", "0">>, <<"S", "w", "3">>, <<"S", "G", "+", "0", "0">>, <<"S", "G", "-", "0", "3">>,
    <<"S", "T", "0", "0", ".", "0">>, <<"S", "T", "6", "0", ".", "1">>
}

NextReplies ==
    \/ \E p \in ReplyCommitPayloads : CommitCommand(parse(p).val)
    \/ \E p \in ReplyFillPayloads : FillResponse(parse(p).val)

SpecReplies == InitStore /\ [][NextReplies]_vars

(* ------------------------ formatting of responses ---------------------- *)

\* the exception raised while formatting a piece of text; Okay(s) is the text s
Bad(exc) == [exc |-> exc, val |-> ""]

\* the text of a followed by the text of b, or the first exception of the two
Cat(a, b) ==
    IF a.exc # "" THEN a ELSE IF b.exc # "" THEN b ELSE Okay(a.val \o b.val)

\* '{}'.format(x)
Str(x) == Okay(ToStr(x))

\* not x
Truthy_inverted(x) ==
    CASE x.t = "bool" -> ~x.v
      [] x.t = "int" -> x.v = 0
      [] x.t = "str" -> x.v = ""
      [] x.t = "float" -> x.v[1] = 0
      [] x.t = "None" -> TRUE

\* bool(x)
Truthy(x) ==
    CASE x.t = "bool" -> x.v
      [] x.t = "int" -> x.v # 0
      [] x.t = "str" -> x.v # ""
      [] x.t = "float" -> x.v[1] # 0
      [] x.t = "None" -> FALSE

RECURSIVE ZeroPad(_, _)
\* the digits s padded on the left with '0' up to w characters
ZeroPad(s, w) == IF Len(s) >= w THEN s ELSE ZeroPad("0" \o s, w)

\* the sign for the sign option '+' (plus) or the default '-', before the digits zero
\* padded to the width between the two ('=' alignment, '0' flag)
Padded(negative, plus, digits, width) ==
    IF negative THEN "-" \o ZeroPad(digits, width - 1)
    ELSE IF plus THEN "+" \o ZeroPad(digits, width - 1)
    ELSE ZeroPad(digits, width)

\* format(x, '=[+]0<width>d'), also '[+]d' with width 0
FormatD(x, plus, width) ==
    CASE x.t = "int" -> Okay(Padded(x.v < 0, plus, NatStr(Abs(x.v)), width))
      [] x.t = "bool" -> Okay(Padded(FALSE, plus, IF x.v THEN "1" ELSE "0", width))
      [] x.t \in {"str", "float"} -> Bad("ValueError")
      [] x.t = "None" -> Bad("TypeError")

\* the mantissa m of e decimals rounded to prec < e decimals, as the correctly rounded
\* float rounds: to nearest, and an exact tie to the even neighbour. A tie is exact when
\* 5 ** e divides m: the decimal m / 10 ** e is then a binary fraction, exactly a float
Rounded(m, e, prec) ==
    CASE 2 * (m % Pow10(e - prec)) < Pow10(e - prec) -> m \div Pow10(e - prec)
      [] 2 * (m % Pow10(e - prec)) > Pow10(e - prec) -> m \div Pow10(e - prec) + 1
      [] /\ 2 * (m % Pow10(e - prec)) = Pow10(e - prec)
         /\ m % (Pow10(e) \div (IF e = 0 THEN 1 ELSE IF e = 1 THEN 2 ELSE IF e = 2 THEN 4
                  ELSE IF e = 3 THEN 8 ELSE IF e = 4 THEN 16 ELSE IF e = 5 THEN 32 ELSE 64)) = 0 ->
            m \div Pow10(e - prec) + ((m \div Pow10(e - prec)) % 2)

\* format(m / 10 ** e, '=[+]0<width>.<prec>f') for the mantissa m: the digits of the
\* mantissa r of prec decimals, with the decimal point
FormatMantissa(negative, m, e, plus, width, prec) ==
    LET r == IF e <= prec THEN m * Pow10(prec - e) ELSE Rounded(m, e, prec) IN
    Okay(Padded(negative, plus,
                NatStr(r \div Pow10(prec)) \o
                    (IF prec = 0 THEN "" ELSE "." \o FracStr(r % Pow10(prec), prec)),
                width))

\* format(x, '=[+]0<width>.<prec>f')
FormatF(x, plus, width, prec) ==
    CASE x.t = "int" -> FormatMantissa(x.v < 0, Abs(x.v), 0, plus, width, prec)
      [] x.t = "bool" -> FormatMantissa(FALSE, IF x.v THEN 1 ELSE 0, 0, plus, width, prec)
      [] x.t = "float" -> FormatMantissa(x.v[1] < 0, Abs(x.v[1]), x.v[2], plus, width, prec)
      [] x.t = "str" -> Bad("ValueError")
      [] x.t = "None" -> Bad("TypeError")

\* int(x): [exc, val]
ToInt(x) ==
    CASE x.t = "int" -> Okay(x)
      [] x.t = "bool" -> Okay(PyInt(IF x.v THEN 1 ELSE 0))
      [] x.t = "float" -> Okay(PyInt((IF x.v[1] < 0 THEN -1 ELSE 1) * (Abs(x.v[1]) \div Pow10(x.v[2]))))
      [] x.t = "str" -> IntConv([i \in 1..Len(x.v) |-> SubSeq(x.v, i, i)])
      [] x.t = "None" -> Failed("TypeError")

\* format(r.val, '=[+]0<width>d') of the result r of a conversion
FormatDOf(r, plus, width) == IF r.exc # "" THEN Bad(r.exc) ELSE FormatD(r.val, plus, width)

\* x % n for the int n: [exc, val]
Modulo(x, n) ==
    CASE x.t = "int" -> Okay(PyInt(x.v % n))
      [] x.t = "bool" -> Okay(PyInt((IF x.v THEN 1 ELSE 0) % n))
      [] x.t = "float" -> Okay(PyFloat(x.v[1] % (n * Pow10(x.v[2])), x.v[2]))
      [] x.t = "str" -> Failed("TypeError")
      [] x.t = "None" -> Failed("TypeError")

\* DMSResponse.format_value
DMSResponse_format_value(a) ==
    Cat(Cat(FormatD(a["degrees"], TRUE, 3), Cat(Str(a["degrees_separator"]), Str(a["minutes"]))),
        IF Truthy(a["high_precision"])
        THEN Cat(Str(a["minutes_separator"]), FormatF(a["seconds"], FALSE, 2, 0))
        ELSE Okay(""))

\* line 125: minutes_frac = self.minutes + self.seconds/60.0, for whole minutes
minutes_frac(minutes, seconds) ==
    CASE minutes.t = "int" /\ seconds.t = "int" /\ seconds.v % 6 = 0 ->
            Okay(PyFloat(10 * minutes.v + seconds.v \div 6, 1))
      [] minutes.t \in {"str", "None"} \/ seconds.t \in {"str", "None"} -> Failed("TypeError")

\* HMSResponse.format_value
HMSResponse_format_value(a) ==
    IF Truthy(a["high_precision"])
    THEN Cat(Cat(FormatD(a["hours"], TRUE, 3), Cat(Str(a["hours_separator"]), Str(a["minutes"]))),
             Cat(Str(a["minutes_separator"]), FormatF(a["seconds"], FALSE, 2, 0)))
    ELSE IF minutes_frac(a["minutes"], a["seconds"]).exc # ""
    THEN Bad(minutes_frac(a["minutes"], a["seconds"]).exc)
    ELSE Cat(FormatD(a["hours"], TRUE, 3),
             Cat(Str(a["hours_separator"]),
                 FormatF(minutes_frac(a["minutes"], a["seconds"]).val, FALSE, 4, 1)))

\* BooleanResponse.format_value
BooleanResponse_format_value(a) ==
    IF Truthy(a["value"]) THEN Str(a["output_true"]) ELSE Str(a["output_false"])

\* DistanceBars.format_value
DistanceBars_format_value(a) ==
    CASE a["value"].t = "int" ->
            (IF a["value"].v \in 0..5 THEN Okay(SubSeq("|||||", 1, a["value"].v) \o "#") ELSE Bad("ValueError"))
      [] a["value"].t = "bool" -> Okay((IF a["value"].v THEN "|" ELSE "") \o "#")
      [] a["value"].t = "float" ->
            (IF a["value"].v[2] = 0 /\ a["value"].v[1] \in 0..5 THEN Bad("TypeError") ELSE Bad("ValueError"))
      [] a["value"].t \in {"str", "None"} -> Bad("ValueError")

\* self.format_value(self.value) of a response of class cls with the attributes a
format_value(cls, a) ==
    CASE RESPONSE_METHODS[cls].format_value = "BaseResponse" -> Str(a["value"])
      [] RESPONSE_METHODS[cls].format_value = "DMSResponse" -> DMSResponse_format_value(a)
      [] RESPONSE_METHODS[cls].format_value = "HMSResponse" -> HMSResponse_format_value(a)
      [] RESPONSE_METHODS[cls].format_value = "BooleanResponse" -> BooleanResponse_format_value(a)
      [] RESPONSE_METHODS[cls].format_value = "GetTrackingRate" -> FormatF(a["value"], FALSE, 4, 1)
      [] RESPONSE_METHODS[cls].format_value = "GetHomeData" ->
            Cat(Str(a["axis_1"]), Cat(Okay(" "), Str(a["axis_2"])))
      [] RESPONSE_METHODS[cls].format_value = "DistanceBars" -> DistanceBars_format_value(a)
      [] RESPONSE_METHODS[cls].format_value = "GetLocalTime" ->
            Cat(Str(a["hours"]), Cat(Okay(":"), Cat(Str(a["minutes"]), Cat(Okay(":"), Str(a["seconds"])))))
      [] RESPONSE_METHODS[cls].format_value = "GetFirmwareDate" ->
            Cat(Str(a["month"]), Cat(Okay(" "), Cat(Str(a["day"]), Cat(Okay(" "), Str(a["year"])))))
      [] RESPONSE_METHODS[cls].format_value = "GetFirmwareNumber" ->
            Cat(Str(a["major"]), Cat(Okay("."), Str(a["minor"])))
      [] RESPONSE_METHODS[cls].format_value = "SignedFloatResponse" -> FormatF(a["value"], TRUE, 5, 1)
      [] RESPONSE_METHODS[cls].format_value = "DateResponse" ->
            Cat(Bad(Modulo(a["year"], 100).exc),
                Cat(FormatD(a["month"], FALSE, 2), Cat(Okay("/"), Cat(FormatD(a["day"], FALSE, 2),
                    Cat(Okay("/"), FormatDOf(Modulo(a["year"], 100), FALSE, 2))))))
      [] RESPONSE_METHODS[cls].format_value = "GetClockFormat" ->
            (IF Truthy(a["value"]) THEN Okay("24") ELSE Okay("12"))
      [] RESPONSE_METHODS[cls].format_value = "GetSelenographicCoordinate" ->
            Cat(FormatD(a["degrees"], TRUE, 0), Cat(Okay("*"), FormatD(a["minutes"], FALSE, 0)))
      [] RESPONSE_METHODS[cls].format_value = "GetAlignmentStatus" ->
            Cat(Str(a["mount"]), Cat(Okay(IF Truthy(a["is_tracking"]) THEN "T" ELSE "N"), Str(a["alignment"])))
      [] RESPONSE_METHODS[cls].format_value = "SetBaudRate" -> Okay("1")
      [] RESPONSE_METHODS[cls].format_value = "GetHighLimit" ->
            Cat(FormatDOf(ToInt(a["value"]), TRUE, 3), Okay("*"))
      [] RESPONSE_METHODS[cls].format_value = "GetSensorOffsets" ->
            Cat(Str(a["az_error"]), Cat(Okay(" "), Cat(Str(a["el_error"]), Cat(Okay(" "), Str(a["home_offset"])))))

\* lines 72-74 of BaseResponse.__str__: the suffix, with the new line
suffix_of(a) ==
    IF Truthy(a["new_line"])
    THEN (IF a["suffix"].t = "str" THEN Okay(a["suffix"].v \o "\n") ELSE Bad("TypeError"))
    ELSE Str(a["suffix"])

\* str(response): [exc, val]
Response_str(resp) ==
    IF RESPONSE_METHODS[resp.cls].str = "EmptyResponse" THEN Okay("")
    ELSE Cat(Bad(suffix_of(resp.attrs).exc), Cat(format_value(resp.cls, resp.attrs), suffix_of(resp.attrs)))

(* ------------------- the specification of formatting ------------------- *)

\* the largest value of the DistanceBars responses that SpecFormat formats
MaxBars == 7

\* the responses SpecFormat formats, as a caller constructs them with keyword arguments:
\* DistanceBars(value=n), DMSResponse(degrees=d, minutes=m, seconds=s) and
\* GetLocalTime(hours=h, minutes=m, seconds=s)
FormatResponses ==
    {[NewResponse("DistanceBars") EXCEPT !.attrs.value = PyInt(n)] : n \in -2..MaxBars}
    \cup {[NewResponse("DMSResponse") EXCEPT !.attrs.degrees = PyInt(d),
                                             !.attrs.minutes = PyInt(m),
                                             !.attrs.seconds = PyInt(s)] :
             d \in {-12, 0, 5}, m \in {-30, 0, 5, 30}, s \in {0, 7, 56}}
    \cup {[NewResponse("GetLocalTime") EXCEPT !.attrs.hours = PyInt(h),
                                              !.attrs.minutes = PyInt(m),
                                              !.attrs.seconds = PyInt(s)] :
             h \in {1, 10, 12}, m \in {2, 33, 34}, s \in {3, 34, 56}}

\* a response object was constructed and nothing else has happened
InitFormat ==
    /\ InitParser(DEFAULT_MAXLEN)
    /\ data = <<>>
    /\ pending = <<>>
    /\ store = EmptyMap
    /\ store_before = EmptyMap
    /\ response \in FormatResponses
    /\ response_before = NoResponse
    /\ committed = NoCommand
    /\ IdleServer

\* str(response): BaseResponse.__str__ returns the text or raises
StrResponse ==
    /\ log = <<>>
    /\ log' = <<[kind |-> "str", text |-> Response_str(response).val]>>
    /\ failed' = Response_str(response).exc
    /\ UNCHANGED <<maxlen, state, buffer, output, data, pending, nemit, popped>>
    /\ UNCHANGED <<parsers, protocols, running, transport>>
    /\ UNCHANGED store_vars
    /\ UNCHANGED frame_vars

NextFormat == StrResponse

SpecFormat == InitFormat /\ [][NextFormat]_vars

(* ----------------------- the parser as an object ----------------------- *)

\* the characters of a text, as the loop of Parser.feed takes them
Chars(s) == [i \in 1..Len(s) |-> SubSeq(s, i, i)]

\* Parser(maxlen): a new parser object. exc is the exception that left its last call;
\* fed, opened and nemit are history: the characters taken so far, the position of the
\* ':' that opened the frame being read, and the commands decoded so far
Parser(n) ==
    [state |-> "IDLE", buffer |-> <<>>, output |-> <<>>, maxlen |-> n,
     exc |-> "", fed |-> 0, opened |-> 0, nemit |-> 0]

\* self.output.appendleft(r) for the result r of from_data or parse, which may have
\* raised instead; the command is numbered and keeps the positions of its first and
\* last character in the input of the parser
appendleft_result(p, r, first) ==
    IF r.exc # "" THEN [p EXCEPT !.exc = r.exc]
    ELSE [p EXCEPT !.output = appendleft(@, [id |-> p.nemit + 1, cmd |-> r.val,
                                               first |-> first, last |-> p.fed + 1]),
                   !.nemit = @ + 1]

\* Parser.__reset_input_state, skipped when the call before it raised
reset_input_state_of(p) ==
    IF p.exc # "" THEN p ELSE [p EXCEPT !.buffer = <<>>, !.state = "IDLE"]

\* Parser.feed_one on the parser object p; history: one more character was taken
Parser_feed_one(p, c) ==
    [(IF p.state = "IDLE"
          THEN IF is_command(<<c>>, ACK)
               THEN appendleft_result(p, from_data(ACK, <<c>>), p.fed + 1)
               ELSE IF is_command(<<c>>, EOT)
               THEN appendleft_result(p, from_data(EOT, <<c>>), p.fed + 1)
               ELSE IF starts_frame(c)
               THEN [p EXCEPT !.state = "PARSING", !.opened = p.fed + 1]
               ELSE p
          ELSE IF ends_frame(c)
               THEN reset_input_state_of(appendleft_result(p, parse(p.buffer), p.opened))
               ELSE IF fits(p.buffer, p.maxlen)
                    THEN [p EXCEPT !.buffer = Append(@, c)]
                    ELSE reset_input_state_of(p)) EXCEPT !.fed = @ + 1]

RECURSIVE Parser_feed(_, _)
\* Parser.feed on the parser object p: the loop over the bytes of d, in order, left by
\* the exception a byte raises; the first half of d is fed, then the second half
Parser_feed(p, d) ==
    IF d = <<>> \/ p.exc # "" THEN p
    ELSE IF Len(d) = 1 THEN Parser_feed_one(p, d[1])
    ELSE Parser_feed(Parser_feed(p, SubSeq(d, 1, Len(d) \div 2)),
                     SubSeq(d, Len(d) \div 2 + 1, Len(d)))

(* ------------------------------ the server ----------------------------- *)

\* connections that are open at the same time
MaxConns == 2

\* connections made in a run
MaxParsers == 2

\* chunks of data received in a run
MaxChunks == 2

Conns == 1..MaxConns

\* the connection has no protocol object: it was not made, or it was lost
NoProtocol == [parser |-> 0, pc |-> "", command |-> NoCommand, id |-> 0]

\* the chunks of data a connection receives: whole frames, two frames in one chunk,
\* a frame split over two chunks, a single-byte command, an unknown command and a
\* command that has no response
Chunks == {
    Chars(":AL#"), Chars(":STA+#:STZ-#"), Chars(":Sd-12:30:00#:Gd#"),
    Chars(":Sr12:"), Chars("34:56#:GR#"), <<ACK_BYTE>>, Chars(":P#"),
    Chars(":XYZ#"), Chars(":FS#:AP#")
}

InitServer ==
    /\ InitParser(DEFAULT_MAXLEN)
    /\ data = <<>>
    /\ pending = <<>>
    /\ store = Store
    /\ store_before = Store
    /\ response = NoResponse
    /\ response_before = NoResponse
    /\ committed = NoCommand
    /\ parsers = <<>>
    /\ protocols = [c \in Conns |-> NoProtocol]
    /\ running = 0
    /\ transport = [c \in Conns |-> <<>>]
    /\ log = <<>>

\* a loop that calls a callback while another one is running
loop_is_free_always == TRUE

\* the event loop runs one callback at a time, each to its end (data_received has no
\* point at which it gives the loop back): it calls the next one when none is running
loop_is_free == running = 0

\* the protocol objects share the first parser object made
shared_parser(c) == 1

\* the parser object LX200Protocol.__init__ makes for the connection c: a new one
new_parser(c) == Len(parsers) + 1

\* what the event loop does with an exception that leaves data_received: the connection
\* is closed and its protocol object dropped
Fatal(c, id, exc) ==
    /\ failed' = exc
    /\ protocols' = [protocols EXCEPT ![c] = NoProtocol]
    /\ running' = 0
    /\ log' = Append(log, [kind |-> "raise", conn |-> c, id |-> id, exc |-> exc])

\* protocol_factory and connection_made: a client connects and is connection c, the
\* first that is free
Connect(c) ==
    /\ loop_is_free
    /\ protocols[c] = NoProtocol
    /\ \A b \in 1..(c - 1) : protocols[b] # NoProtocol
    /\ Len(parsers) < MaxParsers
    /\ parsers' = IF new_parser(c) > Len(parsers)
                  THEN Append(parsers, Parser(DEFAULT_MAXLEN)) ELSE parsers
    /\ protocols' = [protocols EXCEPT ![c] = [parser |-> new_parser(c), pc |-> "idle",
                                               command |-> NoCommand, id |-> 0]]
    /\ transport' = [transport EXCEPT ![c] = <<>>]
    /\ UNCHANGED <<running, failed, log>>
    /\ UNCHANGED <<maxlen, state, buffer, output, data, pending, nemit, popped>>
    /\ UNCHANGED store_vars
    /\ UNCHANGED frame_vars

\* the connection c is dropped: nothing refers to its protocol object any more
ConnectionLost(c) ==
    /\ loop_is_free
    /\ protocols[c] # NoProtocol
    /\ protocols' = [protocols EXCEPT ![c] = NoProtocol]
    /\ UNCHANGED <<parsers, running, transport, failed, log>>
    /\ UNCHANGED <<maxlen, state, buffer, output, data, pending, nemit, popped>>
    /\ UNCHANGED store_vars
    /\ UNCHANGED frame_vars

\* the protocol object after self.parser.feed returned the parser p, or raised. History:
\* decoded has the commands that the call put into the output, in the order decoded
Fed(c, d, p) ==
    /\ parsers' = [parsers EXCEPT ![protocols[c].parser] = p]
    /\ IF p.exc # ""
       THEN Fatal(c, 0, p.exc)
       ELSE /\ protocols' = [protocols EXCEPT ![c].pc = "loop"]
            /\ running' = c
            /\ failed' = ""
            /\ log' = Append(log, [kind |-> "feed", conn |-> c, data |-> d,
                                   parser |-> protocols[c].parser, fed |-> p.fed,
                                   was |-> parsers[protocols[c].parser].state,
                                   state |-> p.state, nemit |-> p.nemit,
                                   decoded |-> [n \in 1..(p.nemit - parsers[protocols[c].parser].nemit) |->
                                      p.output[p.nemit - parsers[protocols[c].parser].nemit + 1 - n].cmd]])

\* lines 28-29 of data_received: the event loop calls it with the chunk d and the chunk
\* is fed to the parser of the connection
DataReceived(c, d) ==
    /\ loop_is_free
    /\ protocols[c] # NoProtocol
    /\ Len(SelectSeq(log, LAMBDA e : e.kind = "feed")) < MaxChunks
    /\ Fed(c, d, Parser_feed(parsers[protocols[c].parser], d))
    /\ UNCHANGED transport
    /\ UNCHANGED <<maxlen, state, buffer, output, data, pending, nemit, popped>>
    /\ UNCHANGED store_vars
    /\ UNCHANGED frame_vars

\* line 35: the store after commit_command(item.cmd) returned or raised
CommittedBy(c, item, r) ==
    /\ store' = r.store
    /\ store_before' = store
    /\ committed' = item.cmd
    /\ ncommit' = ncommit + 1
    /\ response' = NoResponse
    /\ response_before' = NoResponse
    /\ IF r.exc # ""
       THEN Fatal(c, item.id, r.exc)
       ELSE /\ protocols' = [protocols EXCEPT ![c].pc = "respond", ![c].command = item.cmd,
                                              ![c].id = item.id]
            /\ failed' = ""
            /\ log' = Append(log, [kind |-> "commit", conn |-> c, id |-> item.id])
            /\ UNCHANGED running

\* lines 33-35 of data_received: the loop takes a command and commits it
Commit(c) ==
    /\ protocols[c].pc = "loop"
    /\ parsers[protocols[c].parser].output # <<>>
    /\ parsers' = [parsers EXCEPT ![protocols[c].parser].output = pop_rest(@)]
    /\ CommittedBy(c, pop_item(parsers[protocols[c].parser].output),
                   commit_command(store, pop_item(parsers[protocols[c].parser].output).cmd))
    /\ UNCHANGED transport
    /\ UNCHANGED <<maxlen, state, buffer, output, data, pending, nemit, popped>>
    /\ UNCHANGED frame_vars

\* line 44: transport.write(bytes(s.val, 'ascii')) for the result s of str(response)
Written(c, s) ==
    IF s.exc # ""
    THEN Fatal(c, protocols[c].id, s.exc) /\ UNCHANGED transport
    ELSE /\ transport' = [transport EXCEPT ![c] = Append(@, s.val)]
         /\ protocols' = [protocols EXCEPT ![c].pc = "loop"]
         /\ failed' = ""
         /\ log' = Append(log, [kind |-> "write", conn |-> c, id |-> protocols[c].id,
                                text |-> s.val, parser |-> protocols[c].parser,
                                fed |-> parsers[protocols[c].parser].fed])
         /\ UNCHANGED running

\* lines 39-44: the store and the response after fill_response returned or raised
FilledBy(c, r) ==
    /\ store' = r.store
    /\ response' = r.response
    /\ IF r.exc # ""
       THEN Fatal(c, protocols[c].id, r.exc) /\ UNCHANGED transport
       ELSE Written(c, Response_str(r.response))

\* a dispatcher that answers '0' when for_command raised
BuiltBy_answering(c, r) ==
    IF r.exc # ""
    THEN /\ Written(c, Okay("0"))
         /\ UNCHANGED <<store, response, response_before>>
    ELSE /\ response_before' = r.response
         /\ FilledBy(c, fill_response(store, r.response))

\* lines 37-44: the response that for_command built, or the exception it raised
BuiltBy(c, r) ==
    IF r.exc # ""
    THEN /\ Fatal(c, protocols[c].id, r.exc)
         /\ UNCHANGED <<store, response, response_before, transport>>
    ELSE /\ response_before' = r.response
         /\ FilledBy(c, fill_response(store, r.response))

\* lines 37-44 of data_received: the response of the command is built, filled and written
Respond(c) ==
    /\ protocols[c].pc = "respond"
    /\ BuiltBy(c, for_command(protocols[c].command))
    /\ UNCHANGED <<parsers, committed, ncommit, store_before>>
    /\ UNCHANGED <<maxlen, state, buffer, output, data, pending, nemit, popped>>
    /\ UNCHANGED frame_vars

\* line 33: the output is empty and data_received returns to the event loop
Return(c) ==
    /\ protocols[c].pc = "loop"
    /\ parsers[protocols[c].parser].output = <<>>
    /\ protocols' = [protocols EXCEPT ![c].pc = "idle"]
    /\ running' = 0
    /\ UNCHANGED <<parsers, transport, failed, log>>
    /\ UNCHANGED <<maxlen, state, buffer, output, data, pending, nemit, popped>>
    /\ UNCHANGED store_vars
    /\ UNCHANGED frame_vars

NextServer ==
    \/ \E c \in Conns : Connect(c)
    \/ \E c \in Conns : ConnectionLost(c)
    \/ \E c \in Conns, d \in Chunks : DataReceived(c, d)
    \/ \E c \in Conns : Commit(c)
    \/ \E c \in Conns : Respond(c)
    \/ \E c \in Conns : Return(c)

SpecServer == InitServer /\ [][NextServer]_vars

(* ------------- one connection receiving several commands at once -------- *)

\* chunks that hold a getter before and after a setter of the cell it reads, and one
\* with a command that has no response between them
OrderedChunks == {
    Chars(":Gd#:Sd-12:30:00#:Gd#"), Chars(":Gd#:Sd+12:30#"),
    <<ACK_BYTE>> \o Chars(":AP#") \o <<ACK_BYTE>>, Chars(":GL#:SL 01:02:03#:GL#"),
    Chars(":Gr#:Sr12:34:56#:Gr#"), Chars(":Gd#:XYZ#:Sd-12:30:00#")
}

NextChunk ==
    \/ Connect(1)
    \/ ConnectionLost(1)
    \/ \E d \in OrderedChunks : DataReceived(1, d)
    \/ Commit(1)
    \/ Respond(1)
    \/ Return(1)

SpecChunk == InitServer /\ [][NextChunk]_vars

(* ------------------------------ claims --------------------------------- *)

\* C1: draining the output queue with pop yields the commands in the order in
\* which their terminating byte was fed: the serial numbers popped so far are
\* 1, 2, ..., and the commands still queued are the following ones, oldest
\* rightmost; none is reordered, duplicated or lost.
C1_PopOrder ==
    /\ popped = [i \in 1..Len(popped) |-> i]
    /\ Len(popped) + Len(output) = nemit
    /\ \A i \in 1..Len(output) : output[i].id = nemit - i + 1

C1_Witness ==
    /\ Len(popped) >= 2
    /\ Len(output) >= 1
    /\ output[1].cmd.cls = "ACK"

\* C2: while the parser is IDLE, a byte other than \x06, \x04 and ':' leaves
\* the state IDLE, the buffer empty and the output queue unchanged.
C2_JunkIgnored ==
    [][\A c \in Alphabet \ {ACK_BYTE, EOT_BYTE, COMMAND_START} :
         (state = "IDLE" /\ FeedOne(c)) =>
             (state' = "IDLE" /\ buffer' = <<>> /\ output' = output /\ nemit' = nemit)]_vars

C2_Witness ==
    /\ last_state = "IDLE"
    /\ last_byte \in {"D", COMMAND_END}
    /\ state = "IDLE"
    /\ nemit >= 1

\* C3 (as claimed): a frame whose payload has more than maxlen bytes emits no
\* command at all and leaves the parser IDLE with an empty buffer when its
\* closing '#' arrives.
C3_OverlongFrameDropped ==
    (frame_closed /\ frame_len > maxlen) =>
        (nemit = frame_emit /\ state = "IDLE" /\ buffer = <<>>)

\* C3 (amended): the same, for a payload that has none of ':', \x06 and \x04
\* after its first maxlen + 1 bytes.
C3_OverlongPlainFrameDropped ==
    (frame_closed /\ frame_len > maxlen /\ ~frame_tail) =>
        (nemit = frame_emit /\ state = "IDLE" /\ buffer = <<>>)

C3_Witness ==
    /\ frame_closed
    /\ frame_len > maxlen
    /\ ~frame_tail
    /\ last_state = "IDLE"

SingleByteName(c) == IF c = ACK_BYTE THEN "ACK" ELSE "EOT"

\* C4 (as claimed): a \x06 or \x04 byte is decoded into an ACK or EOT command
\* in every parser state.
C4_DecodedInAnyState ==
    [][\A c \in {ACK_BYTE, EOT_BYTE} :
         FeedOne(c) => (nemit' = nemit + 1 /\ output'[1].cmd.cls = SingleByteName(c))]_vars

\* C4 (amended): a \x06 or \x04 byte fed while IDLE is decoded into an ACK or
\* EOT command; fed while PARSING it emits nothing and is taken as a payload
\* byte (appended to the buffer, or dropping the frame when the buffer is full).
C4_DecodedWhenIdle ==
    [][\A c \in {ACK_BYTE, EOT_BYTE} :
         FeedOne(c) =>
             IF state = "IDLE"
             THEN /\ nemit' = nemit + 1
                  /\ output'[1].cmd.cls = SingleByteName(c)
                  /\ state' = "IDLE" /\ buffer' = buffer
             ELSE /\ nemit' = nemit /\ output' = output
                  /\ \/ buffer' = Append(buffer, c) /\ state' = "PARSING"
                     \/ Len(buffer) = maxlen /\ buffer' = <<>> /\ state' = "IDLE"]_vars

C4_Witness ==
    /\ last_state = "PARSING"
    /\ last_byte \in {ACK_BYTE, EOT_BYTE}
    /\ state = "PARSING"
    /\ last_byte \in Range(buffer)
    /\ \E i \in 1..Len(output) : output[i].cmd.cls \in {"ACK", "EOT"}

\* C5: an ACK or EOT command is emitted only by a \x06 or \x04 byte received
\* while the parser is IDLE; no input received while PARSING results in one.
C5_SingleByteOnlyInIdle ==
    [][(nemit' = nemit + 1 /\ output'[1].cmd.cls \in {"ACK", "EOT"}) =>
         (state = "IDLE" /\ last_byte' \in {ACK_BYTE, EOT_BYTE})]_vars

\* isinstance(cmd, the class of entry)
isinstance(cmd, entry) == entry.name \in Range(ClassEntry(cmd.cls).mro)

\* feed(data) has returned and nothing was popped yet
FedFrame == data # <<>> /\ pending = <<>> /\ failed = "" /\ popped = <<>>

Payload == SubSeq(data, 2, Len(data) - 1)

\* the first catalog entry registered with the literal pattern lit
FirstLiteral(lit) == ALL_COMMANDS[Min({i \in LiteralEntries : ALL_COMMANDS[i].lit = lit})]

\* C6 (as claimed): for every catalog entry with a literal pattern P, feeding
\* ':P#' to an IDLE parser emits exactly one command, an instance of that same
\* entry, and leaves the buffer empty.
C6_LiteralDecodesToItsEntry ==
    FedFrame =>
        \A i \in LiteralEntries :
            data = Framed(ALL_COMMANDS[i].lit) =>
                /\ nemit = 1 /\ Len(output) = 1
                /\ isinstance(output[1].cmd, ALL_COMMANDS[i])
                /\ buffer = <<>>

\* C6 (amended): ... emits exactly one command, an instance of the first
\* entry registered with the pattern P (the entry itself, or the class an
\* alias inherits P from), and leaves the buffer empty.
C6_LiteralDecodesToFirstEntry ==
    FedFrame =>
        \A i \in LiteralEntries :
            data = Framed(ALL_COMMANDS[i].lit) =>
                /\ nemit = 1 /\ Len(output) = 1
                /\ output[1].cmd.cls = FirstLiteral(ALL_COMMANDS[i].lit).name
                /\ output[1].cmd.cls \in Range(ALL_COMMANDS[i].mro)
                /\ buffer = <<>> /\ state = "IDLE"

C6_Witness ==
    /\ FedFrame
    /\ data = Framed(<<"S", "T", "Z", "+">>)
    /\ output[1].cmd.cls = "EnableRightAscencionPEC"

RECURSIVE EndsAfter(_, _, _)
\* the lengths of the prefixes of text that items[1..i] can consume
EndsAfter(items, i, text) ==
    IF i = 0 THEN {0}
    ELSE UNION {{q + k : k \in {n \in Range(items[i].counts) :
                                   /\ q + n <= Len(text)
                                   /\ \A p \in (q + 1)..(q + n) : text[p] \in items[i].cls}}
                : q \in EndsAfter(items, i - 1, text)}

\* the pattern of the entry matches all of text
Accepts(entry, text) ==
    IF entry.kind = "literal" THEN text = entry.lit
    ELSE \E a \in 1..Len(entry.alts) : Len(text) \in EndsAfter(entry.alts[a], Len(entry.alts[a]), text)

\* C7: Parser.parse returns the command built by the first entry of the
\* catalog, in registration order, whose pattern fully matches the framed
\* payload, and an Unknown command carrying the payload verbatim as value if
\* and only if no registered entry matches.
C7_FirstMatchWins ==
    (FedFrame /\ Len(Payload) <= maxlen) =>
        LET matching == {i \in 1..Len(ALL_COMMANDS) : Accepts(ALL_COMMANDS[i], Payload)} IN
        /\ nemit = 1 /\ Len(output) = 1
        /\ IF matching = {}
           THEN output[1].cmd = [cls |-> "UnknownCommand", attrs |-> ("value" :> PyStr(Join(Payload)))]
           ELSE /\ output[1].cmd.cls = ALL_COMMANDS[Min(matching)].name
                /\ output[1].cmd = from_data(ALL_COMMANDS[Min(matching)], Payload).val
                /\ output[1].cmd.cls # "UnknownCommand"

C7_Witness ==
    /\ FedFrame
    /\ data = Framed(<<"S", "T", "A", "+">>)
    /\ output[1].cmd.cls = "EnableAltitudePEC"

\* C8: the parser never fails: whatever payload ends up between ':' and '#',
\* every feed and feed_one call returns normally, without an exception.
C8_NeverFails == failed = ""

C8_Witness ==
    /\ FedFrame
    /\ data = Framed(<<"F", "P", " ", " ", "1", "2">>)
    /\ output[1].cmd = [cls |-> "PulseFocuser", attrs |-> ("value" :> PyInt(12))]

\* the class-level path templates of a command
store_path(cmd) == ClassEntry(cmd.cls).store_path
load_path(cmd) == ClassEntry(cmd.cls).load_path

\* C9: a response filled after commit_command(S), for a getter G whose load
\* path resolves to the path S's store path resolves to, carries every key of
\* S's serialized field-map with exactly the value S wrote, whatever the path
\* held before the commit.
C9_FillYieldsCommitted ==
    (/\ failed = ""
     /\ committed # NoCommand
     /\ response # NoResponse
     /\ store_path(committed) # NoPath
     /\ load_path(response.command) # NoPath
     /\ format(store_path(committed), serialize(committed))
          = format(load_path(response.command), serialize(response.command)))
    => \A k \in DOMAIN serialize(committed) :
           /\ k \in DOMAIN response.attrs
           /\ response.attrs[k] = serialize(committed)[k]

\* SetTargetDeclination(+12:30) is committed over an earlier -12:30:00 and the
\* response of GetSelectedObjectDeclination is filled
C9_Witness ==
    /\ failed = ""
    /\ ncommit = 2
    /\ committed.cls = "SetTargetDeclination"
    /\ committed.attrs["degrees"] = PyInt(12)
    /\ "mount.target.declination" \in DOMAIN store_before
    /\ "degrees" \in DOMAIN store_before["mount.target.declination"]
    /\ store_before["mount.target.declination"]["degrees"] = PyInt(-12)
    /\ response.command.cls = "GetSelectedObjectDeclination"
    /\ response.attrs["degrees"] = PyInt(12)

\* the store path a commit of cmd is expected to write, none when cmd has no
\* store binding
ExpectedPath(cmd) ==
    IF cmd.cls = "SetFocuserPresetName"
    THEN [none |-> FALSE, path |-> "focuser.presets.name_" \o
             (IF cmd.attrs["idx"].t = "str" THEN cmd.attrs["idx"].v ELSE ToStr(cmd.attrs["idx"]))]
    ELSE [none |-> get_store_path(cmd).none, path |-> get_store_path(cmd).path]

\* C10: right after commit_command(cmd) the store differs from the store
\* before the commit at most in the field-map at cmd's resolved store path;
\* it is the same store when cmd has no store binding, and for
\* SetFocuserPresetName with index i the path is focuser.presets.name_i, so
\* the cells of the other indices keep their field-maps.
C10_CommitFrame ==
    (failed = "" /\ committed # NoCommand /\ response = NoResponse) =>
        LET p == ExpectedPath(committed) IN
        /\ p.none => store = store_before
        /\ ~p.none =>
             /\ DOMAIN store = DOMAIN store_before \cup {p.path}
             /\ \A q \in DOMAIN store_before \ {p.path} : store[q] = store_before[q]

\* SetFocuserPresetName with index 3 is committed after one with index 1
C10_Witness ==
    /\ failed = ""
    /\ response = NoResponse
    /\ committed.cls = "SetFocuserPresetName"
    /\ committed.attrs["idx"] = PyStr("3")
    /\ "value" \in DOMAIN store_before["focuser.presets.name_1"]
    /\ store["focuser.presets.name_1"]["value"] = PyStr("a")
    /\ "focuser.presets.name_3" \notin DOMAIN store_before
    /\ store["focuser.presets.name_3"]["value"] = PyStr("_")

(* ------------------------- claims on the server ------------------------ *)

\* the commands of the catalog that declare a store_value
EnumeratedSetters == {e \in Range(ALL_COMMANDS) : e.has_store_value}

\* what the log says last
LastEvent == log[Len(log)]

\* the dispatcher has just answered the command committed last, or failed to
Answered == log # <<>> /\ LastEvent.kind \in {"write", "raise"}

\* the reply of the dispatcher to the command cmd on the store st: commit, lookup,
\* fill and str, with the exception that ended them
ReplyTo(st, cmd) ==
    LET done == commit_command(st, cmd)
        built == for_command(cmd)
        filled == fill_response(done.store, built.response)
    IN  IF done.exc # "" THEN Bad(done.exc)
        ELSE IF built.exc # "" THEN Bad(built.exc)
        ELSE IF filled.exc # "" THEN Bad(filled.exc)
        ELSE Response_str(filled.response)

\* the enumerated setters whose reply is not the empty text
HasNoResponse == {"SetFocuserSpeedFastest", "SetFocuserSpeedSlowest"}

RepliesOne == {"HighPrecisionToggle"}

\* the store holds exactly the store_value of the enumerated setter cmd at its path
HoldsStoreValue(st, cmd) ==
    /\ get_store_path(cmd).exc = ""
    /\ ~get_store_path(cmd).none
    /\ get_store_path(cmd).path \in DOMAIN st
    /\ st[get_store_path(cmd).path] = ClassEntry(cmd.cls).store_value

C12_FillWithoutCommandOrPath ==
    [][response_before' # NoResponse =>
        /\ response_before'.command = NoCommand =>
             /\ failed' = "ValueError"
             /\ store' = store
             /\ response' = response_before'
        /\ (/\ response_before'.command # NoCommand
            /\ load_path(response_before'.command) = NoPath
            /\ store_path(response_before'.command) = NoPath) =>
             /\ failed' = ""
             /\ store' = store
             /\ response' = response_before']_vars

\* a DMSResponse without a command was passed to fill_response after a commit had
\* changed the seeded store
C12_Witness ==
    /\ failed = "ValueError"
    /\ response_before = NewResponse("DMSResponse")
    /\ response = response_before
    /\ ncommit > 0
    /\ store # Store

\* the index values the pattern of SetFocuserPresetName admits
AdmissibleIndex == {"1", "2", "3", "4", "5", "6", "7", "8", "9"}

\* a path template with a replacement field
Templated(path) == \E i \in 1..Len(path) : path[i].fld # ""

\* the instances of the catalog entry e that resolve its paths: the entry as it is
\* constructed, and for a templated path one instance for every admissible index
Instances(e) ==
    {NewInstance(e)} \cup
    (IF Templated(e.store_path) \/ Templated(e.load_path)
     THEN {SetAttr(NewInstance(e), "idx", PyStr(i)) : i \in AdmissibleIndex} ELSE {})

\* the paths the command cmd can resolve to, for storing and for loading
ResolvedPaths(cmd) ==
    {r.path : r \in {q \in {Resolve(store_path(cmd), serialize(cmd)),
                            Resolve(load_path(cmd), serialize(cmd))} : q.exc = "" /\ ~q.none}}

\* C13 as claimed: immediately after Store construction with seeding, every store or
\* load path that any catalog command can resolve to (for a templated path, the path of
\* every admissible index value) is a key of the store.
C13_EveryPathSeeded ==
    (ncommit = 0 /\ response_before = NoResponse) =>
        \A e \in Range(ALL_COMMANDS) : \A cmd \in Instances(e) :
            ResolvedPaths(cmd) \subseteq DOMAIN store

\* the defaults that the seeding applies to the key k of the path p
DefaultsFor(p, k) ==
    {i \in DefaultsAt(p) : k \in DOMAIN COMMAND_DEFAULT_MAP[i].data}

\* the store_value payloads that the seeding applies to the key k of the path p
StoreValuesFor(p, k) ==
    {i \in CommandsAt(p) : ALL_COMMANDS[i].has_store_value /\ k \in DOMAIN ALL_COMMANDS[i].store_value}

C15_ResponseBeforeNextBytes ==
    (log # <<>> /\ LastEvent.kind = "write") =>
        /\ parsers[LastEvent.parser].nemit = LastEvent.id
        /\ parsers[LastEvent.parser].state = "IDLE"

\* the responses written for the commands of the parser object i, in the order written
WritesOf(i) == SelectSeq(log, LAMBDA e : e.kind = "write" /\ e.parser = i)

\* C16 as claimed: whenever data_received is over, whatever the chunk contained, the
\* output of the parser is empty and exactly one response was produced for each decoded
\* command, in the order the commands were decoded.
C16_DrainedInOrder ==
    running = 0 =>
        \A i \in 1..Len(parsers) :
            /\ parsers[i].output = <<>>
            /\ Len(WritesOf(i)) = parsers[i].nemit
            /\ \A n \in 1..Len(WritesOf(i)) : WritesOf(i)[n].id = n

\* the chunks ':XYZ#' that arrived at a parser in IDLE
UnknownFeeds ==
    {n \in 1..Len(log) : /\ log[n].kind = "feed"
                         /\ log[n].data = Chars(":XYZ#")
                         /\ log[n].was = "IDLE"}

\* C17: for the input ':XYZ#' the parser emits exactly one command, an Unknown command
\* carrying 'XYZ', the parser is back in IDLE, and the dispatcher writes no reply for
\* that command to the transport.
C17_UnknownGetsNoReply ==
    \A n \in UnknownFeeds :
        /\ log[n].decoded = <<UnknownCommand_from_data(Chars("XYZ"))>>
        /\ log[n].state = "IDLE"
        /\ \A m \in 1..Len(log) :
             ~(log[m].kind = "write" /\ log[m].parser = log[n].parser /\ log[m].id = log[n].nemit)

\* ':XYZ#' arrived on a connection that had been answered before; the Unknown command
\* was taken from the output and the dispatcher was left without a write
C17_Witness ==
    /\ Len(log) = 6
    /\ 4 \in UnknownFeeds
    /\ log[3].kind = "write" /\ log[3].parser = log[4].parser
    /\ log[5] = [kind |-> "commit", conn |-> log[4].conn, id |-> 2]
    /\ LastEvent = [kind |-> "raise", conn |-> log[4].conn, id |-> 2, exc |-> "KeyError"]
    /\ parsers[log[4].parser].state = "IDLE"
    /\ parsers[log[4].parser].output = <<>>
    /\ committed = UnknownCommand_from_data(Chars("XYZ"))
    /\ Len(transport[log[4].conn]) = 1

\* the command classes registered in the command catalog
Registered == {e.name : e \in Range(ALL_COMMANDS)}

\* C18 as claimed: every command class registered in the command catalog has a response
\* mapping, and at runtime the response lookup never misses (KeyError) for a command
\* that the decoder emitted from a registered entry.
C18_ResponseCatalogComplete ==
    /\ Registered \subseteq DOMAIN COMMAND_RESPONSE_MAP
    /\ (log # <<>> /\ LastEvent.kind = "raise" /\ LastEvent.exc = "KeyError") =>
           committed.cls \notin Registered

\* the connections other than c that are within a call of data_received
OthersWithin(c) == {b \in Conns \ {c} : protocols[b].pc \in {"loop", "respond"}}

\* C19: with several connections sharing the store, the commit of a command and the fill
\* of its response are never interleaved with a commit or fill of another connection:
\* when a connection is about to fill, the last commit was its own, the store is what
\* that commit made of the store it found, and no other connection is within its
\* data_received; every response written follows directly the commit of its command.
C19_CommitFillSerialized ==
    /\ \A c \in Conns : protocols[c].pc = "respond" =>
         /\ LastEvent = [kind |-> "commit", conn |-> c, id |-> protocols[c].id]
         /\ committed = protocols[c].command
         /\ store = commit_command(store_before, committed).store
         /\ OthersWithin(c) = {}
    /\ \A n \in 1..Len(log) : log[n].kind = "write" =>
         /\ n > 1
         /\ log[n - 1] = [kind |-> "commit", conn |-> log[n].conn, id |-> log[n].id]

\* two connections share the store: the first was answered after its command changed
\* the seeded store, the second has committed a command that changed the store again
\* and is about to fill its response
C19_Witness ==
    /\ protocols[2].pc = "respond"
    /\ \E n \in 1..Len(log) : log[n].kind = "write" /\ log[n].conn = 1
    /\ Store # store_before
    /\ store_before # store
    /\ ncommit >= 2

\* the connections whose protocol object holds the parser object i
Owner(i) == {c \in Conns : protocols[c].parser = i}

\* C20: each connection has its own parser. No parser object is held by two connections;
\* a step changes a parser object only when it is the step of the one connection that
\* holds it, so bytes received on one connection change no other connection's parser;
\* a parser object is new when a connection gets it, and the parser of a dropped
\* connection is never held again and never changes, so the partial frame left in it is
\* never completed by bytes of another connection.
C20_OwnParser ==
    [][/\ \A i \in 1..Len(parsers') : Cardinality({c \in Conns : protocols'[c].parser = i}) <= 1
       /\ \A i \in 1..Len(parsers) :
            /\ parsers'[i] # parsers[i] =>
                 /\ log' # log
                 /\ Owner(i) = {log'[Len(log')].conn}
            /\ Owner(i) = {} => {c \in Conns : protocols'[c].parser = i} = {}
       /\ \A i \in (Len(parsers) + 1)..Len(parsers') : parsers'[i] = Parser(DEFAULT_MAXLEN)]_vars

\* a connection was dropped with the partial frame ':Sr12:' in its parser; the rest of
\* the frame then arrived on another connection, whose own parser took it from IDLE
C20_Witness ==
    /\ Len(parsers) = 2
    /\ Owner(1) = {}
    /\ parsers[1].state = "PARSING"
    /\ parsers[1].buffer = Chars("Sr12:")
    /\ parsers[1].output = <<>>
    /\ \E n \in 1..Len(log) :
          /\ log[n].kind = "feed"
          /\ log[n].parser = 2
          /\ log[n].data = Chars("34:56#:GR#")
          /\ log[n].was = "IDLE"
          /\ log[n].decoded = <<UnknownCommand_from_data(Chars("56")), parse(Chars("GR")).val>>

\* the response was built for the command of the payload p and filled from the store
FilledFor(p) ==
    /\ response # NoResponse
    /\ response.command = parse(Chars(p)).val
    /\ failed = ""

\* C21 as claimed: with a freshly seeded store the response to ':GA#' is the signed DMS
\* text '+00:00:00#': degrees, minutes and seconds zero-padded to two digits, the
\* declared ':' separators and a trailing '#'.
C21_AltitudePadded ==
    (FilledFor("GA") /\ ncommit = 0) => Response_str(response) = Okay("+00:00:00#")

\* the first connection to receive data received exactly the chunks a and b, in a run
\* that started with the freshly seeded store
FirstInput(a, b) ==
    /\ Len(log) >= 2
    /\ log[1].kind = "feed" /\ log[1].data = Chars(a)
    /\ log[2].kind = "feed" /\ log[2].data = Chars(b)
    /\ log[2].parser = log[1].parser

\* the texts written so far for the commands of the parser object i, in order
TextsOf(i) == [n \in 1..Len(WritesOf(i)) |-> WritesOf(i)[n].text]

\* C22 as claimed: the input ':Sr12:34:56#:GR#' on a freshly seeded store produces first
\* the response '1' and then the response '+12:34:56#'.
C22_SetThenGetRightAscencion ==
    (FirstInput(":Sr12:", "34:56#:GR#") /\ running = 0) =>
        TextsOf(log[1].parser) = <<"1", "+12:34:56#">>

\* the first chunk received in the run, on a server with the freshly seeded store, was a
FirstChunk(a) == log # <<>> /\ log[1].kind = "feed" /\ log[1].data = Chars(a)

\* C23 as claimed: the second response to the input ':Sd-12:30:00#:Gd#' is exactly
\* '-12:30:00#': the value set with Sd is read back by Gd in the same signed DD:MM:SS form.
C23_DeclinationReadBack ==
    (FirstChunk(":Sd-12:30:00#:Gd#") /\ Len(TextsOf(log[1].parser)) >= 2) =>
        TextsOf(log[1].parser)[2] = "-12:30:00#"

\* C24 as claimed: on a freshly seeded store, no alignment command received yet, the
\* input byte \x06 produces the response 'A', a single letter without terminator.
C24_AckRepliesDefaultAlignment ==
    (/\ log # <<>> /\ log[1].kind = "feed" /\ log[1].data = <<ACK_BYTE>>
     /\ Len(TextsOf(log[1].parser)) >= 1) =>
        TextsOf(log[1].parser)[1] = "A"

\* str() was called on a DistanceBars response whose value is the int n
BarsFormatted(n) ==
    /\ response.cls = "DistanceBars"
    /\ response.attrs["value"] = PyInt(n)
    /\ log # <<>>

\* C25 as claimed: DistanceBars formats a value N to N '|' characters followed by '#' for
\* every N in 0..6, and for every N outside 0..6 it signals a domain error and produces
\* no text.
C25_DistanceBars ==
    \A n \in -2..MaxBars : BarsFormatted(n) =>
        IF n \in 0..6
        THEN failed = "" /\ log[1].text = SubSeq("||||||", 1, n) \o "#"
        ELSE failed = "ValueError" /\ log[1].text = ""

\* the decimal digits of a payload, in order
DigitsIn(text) == SelectSeq(text, LAMBDA c : c \in {"0", "1", "2", "3", "4", "5", "6", "7", "8", "9"})

\* the k-th two-digit number written in a payload
Captured(text, k) == DigitsVal(SubSeq(DigitsIn(text), 2 * k - 1, 2 * k))

\* 0 - v when the degrees written in the payload are below zero, and v otherwise
SignedAs(text, v) == IF "-" \in Range(text) /\ Captured(text, 1) > 0 THEN 0 - v ELSE v

\* C26: for every signed-DMS command the decoded minutes and, when present, the
\* decoded seconds are the captured numbers negated exactly when the parsed degrees
\* are negative; committing the command stores the record of these fields, so that
\* ':Sd-12:30:00#' stores degrees = -12, minutes = -30, seconds = 0.
C26_SignedDMSNegation ==
    (/\ FedFrame
     /\ Len(output) = 1
     /\ ClassEntry(output[1].cmd.cls).parse = "SignedDMSCommand") =>
        LET cmd == output[1].cmd
            record == commit_command(Store, cmd).store[get_store_path(cmd).path]
        IN  /\ cmd.attrs["degrees"] = PyInt(SignedAs(Payload, Captured(Payload, 1)))
            /\ cmd.attrs["minutes"] = PyInt(SignedAs(Payload, Captured(Payload, 2)))
            /\ Len(DigitsIn(Payload)) = 6 =>
                   cmd.attrs["seconds"] = PyInt(SignedAs(Payload, Captured(Payload, 3)))
            /\ \A k \in {"degrees", "minutes", "seconds"} : record[k] = cmd.attrs[k]
            /\ Payload = <<"S", "d", "-", "1", "2", ":", "3", "0", ":", "0", "0">> =>
                   /\ record["degrees"] = PyInt(-12)
                   /\ record["minutes"] = PyInt(-30)
                   /\ record["seconds"] = PyInt(0)

\* ':Sa-12*30'45#' was decoded with all three fields below zero
C26_Witness ==
    /\ FedFrame
    /\ data = Framed(<<"S", "a", "-", "1", "2", "*", "3", "0", "'", "4", "5">>)
    /\ output[1].cmd.cls = "SetTargetAltitude"
    /\ output[1].cmd.attrs["minutes"] = PyInt(-30)
    /\ output[1].cmd.attrs["seconds"] = PyInt(-45)

\* the named groups of the pattern of entry that took no part in the match of text
Unmatched(entry, text) ==
    {g \in Range(entry.named) : ~group(entry.alts, can_be(entry, text).m, text, g).some}

\* the value a field converted by the type conv has when nothing was captured for it
ZeroOf(conv) == IF conv = "str" THEN PyStr("") ELSE IF conv = "float" THEN PyFloat(0, 0) ELSE PyInt(0)

\* the converter of the field name of the class entry
ConverterOf(entry, name) ==
    IF name \in DOMAIN entry.type_map THEN entry.type_map[name] ELSE entry.default_type

\* C27: every field that comes from an optional pattern group that did not match
\* holds its converter's zero value (0 for a number, '' for a string), never None,
\* and is present with that value in serialize() and in the store after commit.
C27_UnmatchedGroupsZero ==
    (/\ FedFrame
     /\ Len(output) = 1
     /\ output[1].cmd.cls # "UnknownCommand") =>
        LET cmd == output[1].cmd
            entry == ClassEntry(cmd.cls)
            after == commit_command(Store, cmd)
        IN  \A g \in Unmatched(entry, Payload) :
                /\ g \in DOMAIN cmd.attrs
                /\ cmd.attrs[g] # None
                /\ cmd.attrs[g] = ZeroOf(ConverterOf(entry, g))
                /\ g \in DOMAIN serialize(cmd)
                /\ serialize(cmd)[g] = ZeroOf(ConverterOf(entry, g))
                /\ after.exc = ""
                /\ get_store_path(cmd).path \in DOMAIN after.store
                /\ g \in DOMAIN after.store[get_store_path(cmd).path]
                /\ after.store[get_store_path(cmd).path][g] = ZeroOf(ConverterOf(entry, g))

\* ':Sr12:34.5#' was decoded: the seconds group took no part in the match
C27_Witness ==
    /\ FedFrame
    /\ data = Framed(<<"S", "r", "1", "2", ":", "3", "4", ".", "5">>)
    /\ output[1].cmd.cls = "SetTargetRightAscencion"
    /\ Unmatched(ClassEntry("SetTargetRightAscencion"), Payload) = {"seconds"}
    /\ output[1].cmd.attrs["seconds"] = PyInt(0)
    /\ output[1].cmd.attrs["minutes"] = PyFloat(345, 1)

\* a number of 0..99 written with two digits
TwoDigits(n) == DigitChar(n \div 10) \o DigitChar(n % 10)

\* C28 as claimed: after ':SL HH:MM:SS#' was committed, the responses of the local time
\* getters GL and Ga read 'HH:MM:SS#', every component written with two digits.
C28_LocalTimeReadBack ==
    (/\ failed = ""
     /\ committed.cls = "SetLocalTime"
     /\ response # NoResponse
     /\ response.command.cls \in {"GetLocalTime24H", "GetLocalTime12H"}) =>
        Response_str(response) =
            Okay(TwoDigits(committed.attrs["hours"].v) \o ":" \o TwoDigits(committed.attrs["minutes"].v)
                 \o ":" \o TwoDigits(committed.attrs["seconds"].v) \o "#")

\* C29: a frame ':payload#' taken by an IDLE parser, whose payload of 1 to maxlen
\* bytes holds no '#', decodes exactly one command, known or Unknown, and leaves the
\* parser IDLE with an empty buffer; a payload of exactly maxlen bytes is decoded too.
C29_FrameWithinMaxlenDecoded ==
    (frame_closed /\ frame_len >= 1 /\ frame_len <= maxlen) =>
        /\ failed = ""
        /\ nemit = frame_emit + 1
        /\ \/ nemit \in Range(popped)
           \/ /\ output # <<>>
              /\ output[1].id = nemit
              /\ output[1].cmd.cls \in {"UnknownCommand"} \cup {ALL_COMMANDS[i].name : i \in 1..Len(ALL_COMMANDS)}
        /\ state = "IDLE"
        /\ buffer = <<>>

\* a payload of exactly maxlen bytes, 'FLN1' and 28 more characters, was decoded
C29_Witness ==
    /\ FedFrame
    /\ Len(Payload) = maxlen
    /\ SubSeq(Payload, 1, 4) = <<"F", "L", "N", "1">>
    /\ frame_closed
    /\ frame_len = maxlen
    /\ nemit = 1
    /\ output[1].cmd.cls = "SetFocuserPresetName"
    /\ state = "IDLE"

\* C30: in every reachable state of the parser the buffer holds at most maxlen bytes,
\* and the buffer is empty whenever the state is IDLE.
C30_BufferBounded ==
    /\ Len(buffer) <= maxlen
    /\ state = "IDLE" => buffer = <<>>

\* the buffer is full, in a frame that was opened after a command had been decoded
C30_Witness ==
    /\ state = "PARSING"
    /\ Len(buffer) = maxlen
    /\ maxlen > 0
    /\ nemit >= 1
    /\ frame_open
    /\ frame_len = maxlen
    /\ last_state = "PARSING"

\* C31: every '#' received while PARSING decodes exactly one command and resets the
\* parser to IDLE with an empty buffer; for the empty frame ':#' the command decoded
\* is an UnknownCommand whose value is the empty string.
C31_EveryEndEmits ==
    [][(state = "PARSING" /\ FeedOne(COMMAND_END)) =>
         /\ failed' = ""
         /\ nemit' = nemit + 1
         /\ Len(output') = Len(output) + 1
         /\ output'[1].id = nemit'
         /\ state' = "IDLE"
         /\ buffer' = <<>>
         /\ buffer = <<>> =>
                output'[1].cmd = [cls |-> "UnknownCommand", attrs |-> ("value" :> PyStr(""))]]_vars

\* the empty frame ':#' was closed after an earlier command had been decoded
C31_Witness ==
    /\ last_state = "PARSING"
    /\ last_byte = COMMAND_END
    /\ frame_closed
    /\ frame_len = 0
    /\ nemit >= 2
    /\ state = "IDLE"
    /\ output # <<>>
    /\ output[1].cmd = [cls |-> "UnknownCommand", attrs |-> ("value" :> PyStr(""))]

\* C32: a ':' received while PARSING does not start a new frame: it decodes nothing,
\* it is appended to the buffer and the state stays PARSING while the buffer has room
\* (a full buffer drops the frame instead), so that the buffer holds every byte since
\* the ':' that opened the frame and the next '#' decodes that whole payload.
C32_StartInsideFrame ==
    [][/\ (state = "PARSING" /\ FeedOne(COMMAND_START)) =>
            /\ nemit' = nemit
            /\ output' = output
            /\ IF Len(buffer) < maxlen
               THEN buffer' = Append(buffer, COMMAND_START) /\ state' = "PARSING"
               ELSE buffer' = <<>> /\ state' = "IDLE"
       /\ (frame_open' /\ frame_len' <= maxlen) =>
            (state' = "PARSING" /\ Len(buffer') = frame_len')
       /\ (state = "PARSING" /\ FeedOne(COMMAND_END) /\ COMMAND_START \in Range(buffer)) =>
            /\ nemit' = nemit + 1
            /\ output'[1].cmd = parse(buffer).val
            /\ output'[1].cmd.cls = "UnknownCommand" =>
                   output'[1].cmd.attrs["value"] = PyStr(Join(buffer))]_vars

\* ':' ':' '#' was fed: the second ':' became the payload of the frame
C32_Witness ==
    /\ frame_closed
    /\ frame_len >= 1
    /\ frame_len <= maxlen
    /\ last_byte = COMMAND_END
    /\ output # <<>>
    /\ output[1].cmd.cls = "UnknownCommand"
    /\ output[1].cmd.attrs["value"].t = "str"
    /\ output[1].cmd.attrs["value"].v = ":"

\* the catalog entries that declare a load_path and no store_path
GetterEntries ==
    {i \in 1..Len(ALL_COMMANDS) : ALL_COMMANDS[i].store_path = NoPath /\ ALL_COMMANDS[i].load_path # NoPath}

\* cmd is an instance of a class that declares a load_path and no store_path
IsGetter(cmd) == store_path(cmd) = NoPath /\ load_path(cmd) # NoPath

\* C33: committing a command that declares only a load_path (ACK, D, the G* getters)
\* returns normally and leaves every field-map of the store as it was, although
\* commit_command resolves a path for it by falling back to load_path.
C33_GetterCommitKeepsStore ==
    /\ (committed # NoCommand /\ response_before = NoResponse /\ IsGetter(committed)) =>
            /\ ~get_store_path(committed).none
            /\ failed = ""
            /\ store = store_before
    /\ \A i \in GetterEntries :
            /\ ~get_store_path_of(ALL_COMMANDS[i], NewInstance(ALL_COMMANDS[i])).none
            /\ commit_command_of(store, ALL_COMMANDS[i], NewInstance(ALL_COMMANDS[i]))
                   = [exc |-> "", store |-> store]

\* ':Gd#' was committed after ':Sd-12:30:00#': the target declination is still there
C33_Witness ==
    /\ ncommit = 2
    /\ failed = ""
    /\ committed.cls = "GetSelectedObjectDeclination"
    /\ response_before = NoResponse
    /\ store = store_before
    /\ "degrees" \in DOMAIN store["mount.target.declination"]
    /\ store["mount.target.declination"]["degrees"] = PyInt(-12)
    /\ store["mount.target.declination"]["minutes"] = PyInt(-30)

\* C34: in every state reached by commits and fills on the seeded store the cell
\* mount.clock_format_24h holds value True, and the response to ':Gc#' reads '24#':
\* no command, the toggle ':H#' included, sets the flag to False.
C34_ClockFormatStays24h ==
    /\ "mount.clock_format_24h" \in DOMAIN store
    /\ store["mount.clock_format_24h"] = ("value" :> PyBool(TRUE))
    /\ FilledFor("Gc") => Response_str(response) = Okay("24#")
    /\ \A i \in CommandsAt("mount.clock_format_24h") :
           commit_command_of(store, ALL_COMMANDS[i], NewInstance(ALL_COMMANDS[i])).store = store

\* ':H#' was the second command committed, and the response to ':Gc#' was filled
C34_Witness ==
    /\ ncommit = 2
    /\ committed.cls = "ToggleTimeFormat"
    /\ store = store_before
    /\ FilledFor("Gc")
    /\ response.attrs["value"] = PyBool(TRUE)
    /\ Response_str(response) = Okay("24#")

\* the position in the log of the feed event that decoded the command written or
\* committed at position n: the last feed event before n
FeedBefore(n) ==
    LET feeds == {k \in 1..(n - 1) : log[k].kind = "feed"}
    IN  IF feeds = {} THEN 0 ELSE CHOOSE k \in feeds : \A j \in feeds : j <= k

\* the serial numbers of the commands committed between the positions a and b of the log
CommittedBetween(a, b) == {log[k].id : k \in {j \in (a + 1)..(b - 1) : log[j].kind = "commit"}}

\* C35: when several commands arrive in one chunk, the response to the N-th command
\* is built from the store as the commits of the commands 1..N left it, before the
\* commit of the command N+1: when it is written, exactly the commands of the chunk up
\* to the N-th are committed, the N-th last, and its text is the text of the response
\* filled from the store that the commit of the N-th produced.
C35_ReplyFromOwnCommit ==
    \A n \in 1..Len(log) :
        log[n].kind = "write" =>
            /\ n > 1
            /\ log[n - 1].kind = "commit"
            /\ log[n - 1].id = log[n].id
            /\ log[n - 1].conn = log[n].conn
            /\ FeedBefore(n) > 0
            /\ CommittedBetween(FeedBefore(n), n)
                  = (log[FeedBefore(n)].nemit - Len(log[FeedBefore(n)].decoded) + 1)..log[n].id
            /\ n = Len(log) =>
                  /\ store = commit_command(store_before, committed).store
                  /\ committed = log[FeedBefore(n)].decoded[log[n].id - log[FeedBefore(n)].nemit
                                                            + Len(log[FeedBefore(n)].decoded)]
                  /\ Okay(log[n].text)
                        = Response_str(fill_response(commit_command(store_before, committed).store,
                                                     for_command(committed).response).response)

\* ':Gd#:Sd-12:30:00#:Gd#' was received on the fresh store: the first reply is the seeded
\* declination, the last one the declination that was set between them
C35_Witness ==
    /\ FirstChunk(":Gd#:Sd-12:30:00#:Gd#")
    /\ running = 0
    /\ Len(log) = 7
    /\ TextsOf(log[1].parser) = <<"+00:0:00#", "1", "-12:-30:00#">>

\* C36 as claimed: when the dispatcher finds no response for a decoded command, the
\* store is exactly as it was before that command was processed.
C36_StoreKeptWithoutResponse ==
    (/\ log # <<>>
     /\ log[Len(log)].kind = "raise"
     /\ log[Len(log)].exc = "KeyError"
     /\ committed # NoCommand
     /\ committed.cls \notin DOMAIN COMMAND_RESPONSE_MAP) =>
        store = store_before

\* the store cells the getters of the current position read
PositionPaths == {"mount.altitude", "mount.declination", "mount.right_ascencion", "mount.azimuth"}

\* the text of the response to the command of payload p, filled from the store st
ReplyOn(st, p) ==
    Response_str(fill_response(st, for_command(parse(Chars(p)).val).response).response)

\* C37: no command writes the cells mount.altitude, mount.declination,
\* mount.right_ascencion and mount.azimuth that GA, GD, GR and GZ read: every catalog
\* entry bound to one of them is a getter, the cells are as they were seeded in every
\* reachable state, and the replies to the four getters are those of the seeded store,
\* whatever Sa, Sd, Sr and Sz set before.
C37_PositionNeverWritten ==
    /\ \A p \in PositionPaths :
          /\ p \in DOMAIN store
          /\ store[p] = Store[p]
          /\ \A i \in CommandsAt(p) : i \in GetterEntries
    /\ \A g \in {"GA", "GD", "GR", "GZ"} :
          /\ get_load_path(parse(Chars(g)).val).path \in PositionPaths
          /\ FilledFor(g) =>
                /\ Response_str(response) = ReplyOn(Store, g)
                /\ Response_str(response).exc = ""

\* ':Sz123*45#' and ':Sa-12*30'45#' were committed and the response to ':GZ#' filled
C37_Witness ==
    /\ ncommit = 2
    /\ committed.cls \in {"SetTargetAltitude", "SetTargetAzimuth"}
    /\ store["mount.target.azimuth"] = ("degrees" :> PyInt(123)) @@ ("minutes" :> PyInt(45))
    /\ "degrees" \in DOMAIN store["mount.target.altitude"]
    /\ store["mount.target.altitude"]["degrees"] = PyInt(-12)
    /\ FilledFor("GZ")
    /\ Response_str(response) = Okay("+00:0:00#")

\* C38 as claimed: the reply to an accepted SetUTCOffset, SetSlewRate or SetTrackingRate,
\* filled after the command was committed, is the success token of its response,
\* whatever the numeric argument is, zero included.
C38_NumericSetterSucceeds ==
    (/\ failed = ""
     /\ response # NoResponse
     /\ response.command = committed
     /\ committed.cls \in {"SetUTCOffset", "SetSlewRate", "SetTrackingRate"}) =>
        Response_str(response) = Okay(response_before.attrs["output_true"].v)

====
